---- MODULE Spec2Model ----
(***************************************************************************)
(* State-machine model of the serverless auth/profile/manifest backend     *)
(* (api/index.py, api/routes/*.py, api/utils/*.py).                        *)
(*                                                                         *)
(* Strings are sequences of one-character strings, so that strip(),        *)
(* lower() and startswith() are computed and not assumed.  None is the     *)
(* distinguished value NoneStr; a column missing from a row is Absent.     *)
(* bcrypt and HMAC-SHA256 are ideal: a hash is the salt and the password   *)
(* under a "$2b$" prefix, a signature is the tuple of what was signed.     *)
(***************************************************************************)
EXTENDS Integers, Sequences, FiniteSets, TLC

VARIABLES
    env,          \* environment variables / installed libraries of the deployment
    admin_users,  \* external table admin_users: sequence of rows
    pdf_assets,   \* external table pdf_assets: [rows, seq], seq the last id given
    auth_users,   \* the provider's user table: set of [email, password]
    sessions,     \* the provider's live user sessions: set of [token, email]
    clock,        \* wall clock, in ticks of 1/TicksPerSec second
    issued,       \* history: admin tokens issued so far, with time and signing hash
    saltCtr,      \* number of bcrypt salts drawn so far (gensalt() is fresh)
    resp,         \* the last request handled and its response
    inflight      \* requests being handled by concurrent instances: their position

vars == <<env, admin_users, pdf_assets, auth_users, sessions, clock, issued, saltCtr, resp,
          inflight>>

(***************************************************************************)
(* Bounds of the model                                                     *)
(***************************************************************************)
TicksPerSec == 3
MaxIssued == 2
MaxRotations == 1
MaxPdfRows == 2
MaxSessions == 1

(***************************************************************************)
(* Strings                                                                 *)
(***************************************************************************)
NoneStr == <<"<None>">>
Absent == <<"<absent>">>

Uppers == <<"A","B","C","D","E","F","G","H","I","J","K","L","M","N","O","P","Q","R","S","T","U","V","W","X","Y","Z">>
Lowers == <<"a","b","c","d","e","f","g","h","i","j","k","l","m","n","o","p","q","r","s","t","u","v","w","x","y","z">>
Whitespace == {" ", "\t", "\n", "\r"}

lower_char(c) ==
    IF \E i \in 1..Len(Uppers) : Uppers[i] = c
    THEN Lowers[CHOOSE i \in 1..Len(Uppers) : Uppers[i] = c]
    ELSE c

str_lower(s) == [i \in 1..Len(s) |-> lower_char(s[i])]

RECURSIVE str_lstrip(_)
str_lstrip(s) ==
    IF s # <<>> /\ Head(s) \in Whitespace THEN str_lstrip(Tail(s)) ELSE s

RECURSIVE str_rstrip(_)
str_rstrip(s) ==
    IF s # <<>> /\ s[Len(s)] \in Whitespace THEN str_rstrip(SubSeq(s, 1, Len(s) - 1)) ELSE s

str_strip(s) == str_rstrip(str_lstrip(s))

startswith(s, p) == Len(s) >= Len(p) /\ SubSeq(s, 1, Len(p)) = p

\* Python truthiness of an Optional[str]
Truthy(s) == s # NoneStr /\ s # Absent /\ s # <<>>

\* x or y, on Optional[str]
OrElse(x, y) == IF Truthy(x) THEN x ELSE y

\* row.get(key) on a column that may be missing
Get(v) == IF v = Absent THEN NoneStr ELSE v

\* a normalization that keeps the letters as they are
normalize_email_keep_case(email) == str_strip(OrElse(email, <<>>))

normalize_email(email) == str_lower(str_strip(OrElse(email, <<>>)))

(***************************************************************************)
(* utils/admin_auth.py: constants                                          *)
(***************************************************************************)
SESSION_TTL_SECONDS == 43200
RESET_TTL_SECONDS == 600

RESET_FLAGS ==
    {"force_password_change", "must_reset_password", "password_reset_required",
     "needs_password_reset", "requires_password_update"}

RESET_TIMESTAMP_FIELDS == {"password_updated_at", "password_last_updated"}

\* int(time.time())
NowSeconds == clock \div TicksPerSec

(***************************************************************************)
(* utils/admin_auth.py: secret, signature, tokens                          *)
(***************************************************************************)
NoSecret == "<unset>"

_get_secret ==
    IF env.ADMIN_SESSION_SECRET THEN "ADMIN_SESSION_SECRET"
    ELSE IF env.SUPABASE_SERVICE_ROLE_KEY THEN "SUPABASE_SERVICE_ROLE_KEY"
    ELSE IF env.SUPABASE_ANON_KEY THEN "SUPABASE_ANON_KEY"
    ELSE NoSecret

\* a signature that leaves the password hash out of the signed message
_sign_without_hash(body, password_hash, purpose) ==
    [key |-> _get_secret, body |-> body, purpose |-> purpose, hash |-> <<>>]

\* HMAC-SHA256(secret, f"{body}|{purpose}|{password_hash or ''}")
_sign(body, password_hash, purpose) ==
    [key |-> _get_secret, body |-> body, purpose |-> purpose,
     hash |-> OrElse(password_hash, <<>>)]

Payload(email, exp, nonce, purpose) ==
    [email |-> email, exp |-> exp, nonce |-> nonce, purpose |-> purpose]

\* A token is body "." signature; fmt tells whether it splits and decodes.
_generate_token(email, password_hash, ttl_seconds, purpose, nonce) ==
    LET body == Payload(email, NowSeconds + ttl_seconds, nonce, purpose)
    IN  [fmt |-> "ok", body |-> body, sig |-> _sign(body, password_hash, purpose)]

NoPayload == Payload(NoneStr, -1, -1, "<none>")

_decode_payload(token) ==
    IF token.fmt = "ok" THEN token.body ELSE NoPayload

\* a verification that trusts the purpose the token itself declares
_verify_token_any_purpose(token, password_hash, expected_purpose) ==
    IF token.fmt = "nodot" THEN NoPayload
    ELSE IF token.sig # _sign(token.body, password_hash, token.body.purpose) THEN NoPayload
    ELSE IF token.fmt # "ok" THEN NoPayload
    ELSE IF token.body.exp < NowSeconds THEN NoPayload
    ELSE token.body

\* a verification that already rejects a token in its last valid second
_verify_token_early_expiry(token, password_hash, expected_purpose) ==
    IF token.fmt = "nodot" THEN NoPayload
    ELSE IF token.sig # _sign(token.body, password_hash, expected_purpose) THEN NoPayload
    ELSE IF token.fmt # "ok" THEN NoPayload
    ELSE IF token.body.purpose # expected_purpose THEN NoPayload
    ELSE IF token.body.exp <= NowSeconds THEN NoPayload
    ELSE token.body

_verify_token(token, password_hash, expected_purpose) ==
    IF token.fmt = "nodot" THEN NoPayload
    ELSE IF token.sig # _sign(token.body, password_hash, expected_purpose) THEN NoPayload
    ELSE IF token.fmt # "ok" THEN NoPayload
    ELSE IF token.body.purpose # expected_purpose THEN NoPayload
    ELSE IF token.body.exp < NowSeconds THEN NoPayload
    ELSE token.body

create_session_token(email, password_hash, nonce) ==
    _generate_token(email, password_hash, SESSION_TTL_SECONDS, "session", nonce)

verify_session_token(token, password_hash) ==
    _verify_token(token, password_hash, "session")

decode_session_payload(token) ==
    LET payload == _decode_payload(token)
    IN  IF payload # NoPayload /\ payload.purpose = "session" THEN payload ELSE NoPayload

create_reset_token(email, password_hash, nonce) ==
    _generate_token(email, password_hash, RESET_TTL_SECONDS, "reset", nonce)

decode_reset_payload(token) ==
    LET payload == _decode_payload(token)
    IN  IF payload # NoPayload /\ payload.purpose = "reset" THEN payload ELSE NoPayload

verify_reset_token(token, password_hash) ==
    _verify_token(token, password_hash, "reset")

(***************************************************************************)
(* utils/admin_auth.py: passwords                                          *)
(***************************************************************************)
SaltNames == <<"s1", "s2", "s3", "s4", "s5", "s6">>
BcryptPrefix == <<"$", "2", "b", "$">>

\* bcrypt.hashpw(password, bcrypt.gensalt()): the n-th salt drawn
hash_password(password, n) == BcryptPrefix \o <<SaltNames[n]>> \o password

\* bcrypt.checkpw raises ValueError ("Invalid salt") on a value that is no hash
IsBcryptHash(value) ==
    /\ Len(value) >= 5
    /\ SubSeq(value, 1, 4) = BcryptPrefix
    /\ \E i \in 1..Len(SaltNames) : SaltNames[i] = value[5]

bcrypt_checkpw(password, value) == SubSeq(value, 6, Len(value)) = password

\* (matched, is_hashed), or raised when the bcrypt library is missing
verify_password(password, stored_value) ==
    IF ~Truthy(stored_value)
    THEN [matched |-> FALSE, hashed |-> FALSE, raised |-> FALSE]
    ELSE IF startswith(stored_value, <<"$", "2">>) /\ Len(stored_value) >= 4
    THEN IF ~env.bcrypt
         THEN [matched |-> FALSE, hashed |-> FALSE, raised |-> TRUE]
         ELSE IF ~IsBcryptHash(stored_value)
         THEN [matched |-> FALSE, hashed |-> FALSE, raised |-> FALSE]
         ELSE [matched |-> bcrypt_checkpw(password, stored_value), hashed |-> TRUE,
               raised |-> FALSE]
    ELSE [matched |-> password = stored_value, hashed |-> FALSE, raised |-> FALSE]

\* JSON scalars of a row are the atoms "absent", "null", "true", "false",
\* numbers "0"/"1" and quoted strings such as "'yes'".
as_bool(value) == value \in {"true", "1", "'true'", "'1'", "'yes'", "'y'"}

\* not row.get(key), for a timestamp column
Falsy(value) == value \in {"absent", "null", "''", "0", "false"}

\* a rotation test that forgets legacy plaintext passwords
requires_password_change_flags_only(row, password_is_hashed) ==
    \/ \E key \in RESET_FLAGS : row.flags[key] # "absent" /\ as_bool(row.flags[key])
    \/ \E key \in RESET_TIMESTAMP_FIELDS : row.stamps[key] # "absent" /\ Falsy(row.stamps[key])

requires_password_change(row, password_is_hashed) ==
    \/ \E key \in RESET_FLAGS : row.flags[key] # "absent" /\ as_bool(row.flags[key])
    \/ \E key \in RESET_TIMESTAMP_FIELDS : row.stamps[key] # "absent" /\ Falsy(row.stamps[key])
    \/ ~password_is_hashed

(***************************************************************************)
(* utils/core_supabase.py, utils/admin_auth.py: clients and admin_users    *)
(***************************************************************************)
\* build_supabase_public() returns a client, or raises RuntimeError
build_supabase_public ==
    /\ env.supabase_sdk
    /\ env.SUPABASE_URL
    /\ (env.SUPABASE_ANON_KEY \/ env.SUPABASE_SERVICE_ROLE_KEY)

\* build_admin_client() returns a service-role client, or raises RuntimeError
build_admin_client ==
    /\ env.supabase_sdk
    /\ build_supabase_public
    /\ env.SUPABASE_SERVICE_ROLE_KEY

\* SQL ILIKE on lowered strings: % is any run of characters, _ any one character
RECURSIVE like_match(_, _)
like_match(p, s) ==
    IF p = <<>> THEN s = <<>>
    ELSE IF Head(p) = "%"
    THEN like_match(Tail(p), s) \/ (s # <<>> /\ like_match(p, Tail(s)))
    ELSE /\ s # <<>>
         /\ (Head(p) = "_" \/ Head(p) = Head(s))
         /\ like_match(Tail(p), Tail(s))

ilike(value, pattern) ==
    Truthy(value) /\ like_match(str_lower(pattern), str_lower(value))

RowsEq(email) == {i \in 1..Len(admin_users) : admin_users[i].email = email}
RowsILike(email) == {i \in 1..Len(admin_users) : ilike(admin_users[i].email, email)}

\* fetch_admin_user(email): the rows (indexes into admin_users) that the first
\* non-empty attempt may return; limit(1) without an order returns any of them.
\* The empty set is None (no row, no service-role client, or the query raised).
fetch_admin_user(email, dbRaises) ==
    IF ~build_admin_client \/ dbRaises \/ ~Truthy(email) THEN {}
    ELSE IF RowsEq(email) # {} THEN RowsEq(email)
    ELSE IF str_lower(email) # email /\ RowsEq(str_lower(email)) # {}
    THEN RowsEq(str_lower(email))
    ELSE RowsILike(email)

\* an update payload that leaves the stored hash as it is
build_password_update_payload_keeps_hash(row, new_password_hash) ==
    [password_hash |-> row.password_hash,
     flags |-> [key \in RESET_FLAGS |->
                    IF row.flags[key] # "absent" THEN "false" ELSE "absent"],
     stamps |-> [key \in RESET_TIMESTAMP_FIELDS |->
                    IF row.stamps[key] # "absent" THEN "'ts'" ELSE "absent"],
     password |-> IF row.password # Absent THEN NoneStr ELSE Absent,
     password_temp |-> IF row.password_temp # Absent THEN NoneStr ELSE Absent]

\* build_password_update_payload(row, new_password_hash) applied to a row
build_password_update_payload(row, new_password_hash) ==
    [password_hash |-> new_password_hash,
     flags |-> [key \in RESET_FLAGS |->
                    IF row.flags[key] # "absent" THEN "false" ELSE "absent"],
     stamps |-> [key \in RESET_TIMESTAMP_FIELDS |->
                    IF row.stamps[key] # "absent" THEN "'ts'" ELSE "absent"],
     password |-> IF row.password # Absent THEN NoneStr ELSE Absent,
     password_temp |-> IF row.password_temp # Absent THEN NoneStr ELSE Absent]

ApplyUpdate(row, updates) ==
    [row EXCEPT !.password_hash = updates.password_hash,
                !.flags = updates.flags,
                !.stamps = updates.stamps,
                !.password = updates.password,
                !.password_temp = updates.password_temp]

\* the table after client.table("admin_users").update(updates).eq("email", email)
UpdatedTable(email, updates) ==
    [i \in 1..Len(admin_users) |->
        IF admin_users[i].email = email THEN ApplyUpdate(admin_users[i], updates)
        ELSE admin_users[i]]

\* update_admin_user(email, updates): True iff the call returned updated rows.
\* outcome: "ok", "raise" (failed before the write) or "raise_after" (the
\* write was applied and the reply was lost).
update_admin_user(email, outcome) ==
    build_admin_client /\ outcome = "ok" /\ RowsEq(email) # {}

UpdateApplied(email, outcome) ==
    build_admin_client /\ outcome \in {"ok", "raise_after"} /\ RowsEq(email) # {}

\* stored_value = row.password_hash or row.password or row.password_temp
StoredValue(row) ==
    OrElse(Get(row.password_hash), OrElse(Get(row.password), Get(row.password_temp)))

(***************************************************************************)
(* Responses                                                               *)
(***************************************************************************)
NoSig == [key |-> NoSecret, body |-> NoPayload, purpose |-> "<none>", hash |-> <<>>]
NoToken == [fmt |-> "absent", body |-> NoPayload, sig |-> NoSig]
\* the empty cookie value "" written by /admin/logout: it has no "."
EmptyToken == [fmt |-> "nodot", body |-> NoPayload, sig |-> NoSig]

\* placeholder for "no row was fetched"
NoRow ==
    [email |-> NoneStr, password_hash |-> NoneStr, password |-> Absent, password_temp |-> Absent,
     active |-> "absent", flags |-> [key \in RESET_FLAGS |-> "absent"],
     stamps |-> [key \in RESET_TIMESTAMP_FIELDS |-> "absent"]]

Response(op, req, status) ==
    [op |-> op, req |-> req, status |-> status,
     cookie |-> "none",            \* which cookie the response sets
     cookie_value |-> NoToken,     \* admin_session value set
     max_age |-> -1,               \* max_age of the cookie set (-1: none given)
     reset_token |-> NoToken,      \* reset_token of the JSON body
     requires_password_change |-> "absent",
     email |-> NoneStr,            \* email of the JSON body
     row |-> 0,                    \* index of the admin_users row the handler fetched
     seen |-> NoRow,               \* that row as the handler read it
     matched |-> FALSE,            \* verify_password matched
     guard |-> "n/a",              \* require_admin outcome
     calls |-> <<>>,               \* external calls made, in order
     data |-> {},                  \* items of the JSON body, arguments of provider calls
     access_token |-> "",          \* sb_access_token value set
     enc_profile |-> FALSE,        \* the body carries an encrypted profile
     plain |-> {},                 \* profile fields the JSON body carries in the clear
     selected |-> {},              \* rows a manifest query returned
     detail |-> "none",            \* what the error detail is made of
     escaped |-> FALSE,            \* an exception other than HTTPException left the handler
     raised |-> "none",            \* the external call that failed unexpectedly
     handler |-> "none",           \* the route handler the request was dispatched to
     blob |-> [alg |-> "none"]]    \* the encrypted profile block of the body

(***************************************************************************)
(* Deployments, tables and request inputs the model draws from             *)
(***************************************************************************)
EnvAllSet ==
    [SUPABASE_URL |-> TRUE, SUPABASE_ANON_KEY |-> TRUE, SUPABASE_SERVICE_ROLE_KEY |-> TRUE,
     ADMIN_SESSION_SECRET |-> TRUE, AUTH_PRIVATE_KEY |-> TRUE,
     supabase_sdk |-> TRUE, bcrypt |-> TRUE, AESGCM |-> TRUE, ADMIN_EMAILS |-> NoneStr]

EnvNoSecret == [EnvAllSet EXCEPT !.ADMIN_SESSION_SECRET = FALSE]
EnvNoServiceKey == [EnvAllSet EXCEPT !.SUPABASE_SERVICE_ROLE_KEY = FALSE]
EnvNoUrl == [EnvAllSet EXCEPT !.SUPABASE_URL = FALSE]
EnvNoBcrypt == [EnvAllSet EXCEPT !.bcrypt = FALSE]
EnvNoAESGCM == [EnvAllSet EXCEPT !.AESGCM = FALSE]

AdminEmail == <<"a", "@", "x">>
UserEmail == <<"u", "@", "x">>
Pw1 == <<"p", "w", "1">>
Pw2 == <<"b", "a", "d">>
NewPw == <<"n", "e", "w", "p", "a", "s", "s", "1">>
ShortPw == <<"s", "h", "o", "r", "t">>

NoFlags == [key \in RESET_FLAGS |-> "absent"]
NoStamps == [key \in RESET_TIMESTAMP_FIELDS |-> "absent"]

\* a migrated admin: bcrypt hash, active, no rotation columns
HashedRow ==
    [email |-> AdminEmail, password_hash |-> hash_password(Pw1, 1),
     password |-> Absent, password_temp |-> Absent, active |-> "true",
     flags |-> NoFlags, stamps |-> NoStamps]

\* a migrated admin whose table has rotation columns, none of them raised
RotatableRow ==
    [HashedRow EXCEPT !.flags = [NoFlags EXCEPT !["force_password_change"] = "false"],
                      !.stamps = [NoStamps EXCEPT !["password_updated_at"] = "'ts'"]]

FlaggedRow ==
    [HashedRow EXCEPT !.flags = [NoFlags EXCEPT !["needs_password_reset"] = "'yes'"]]

StaleStampRow ==
    [HashedRow EXCEPT !.stamps = [NoStamps EXCEPT !["password_last_updated"] = "null"]]

\* unmigrated admins: the password is stored in the clear
LegacyRow ==
    [HashedRow EXCEPT !.password_hash = NoneStr, !.password = Pw1, !.password_temp = NoneStr]

LegacyTempRow ==
    [HashedRow EXCEPT !.password_hash = NoneStr, !.password = NoneStr, !.password_temp = Pw1]

InactiveRow == [LegacyRow EXCEPT !.active = "false"]

MixedCaseRow == [HashedRow EXCEPT !.active = "absent", !.email = <<"A", "@", "x">>]

\* an active admin whose row was entered with a capital letter
UpperCaseRow == [HashedRow EXCEPT !.email = <<"A", "@", "x">>]

BrokenHashRow == [HashedRow EXCEPT !.password_hash = <<"$", "2", "x", "y">>]

InitialAdminRows ==
    {HashedRow, RotatableRow, FlaggedRow, StaleStampRow, LegacyRow, LegacyTempRow,
     InactiveRow, MixedCaseRow, BrokenHashRow}

\* deployments the credential flows are explored in
Deployments ==
    ({EnvAllSet} \X InitialAdminRows)
        \cup ({EnvNoSecret, EnvNoServiceKey, EnvNoUrl, EnvNoBcrypt} \X {LegacyRow})

LoginBodies ==
    {[email |-> AdminEmail, password |-> Pw1],
     [email |-> <<" ", "A", "@", "x">>, password |-> Pw1 \o <<" ">>],
     [email |-> AdminEmail, password |-> Pw2],
     [email |-> AdminEmail, password |-> NewPw],
     [email |-> UserEmail, password |-> Pw1],
     [email |-> <<" ">>, password |-> Pw1]}

NewPasswords == {NewPw \o <<" ">>, ShortPw}

ProviderSessions ==
    {[token |-> "tokA", email |-> AdminEmail], [token |-> "tokU", email |-> UserEmail]}

(***************************************************************************)
(* The clock                                                               *)
(***************************************************************************)
\* instants (in seconds) the credential flows are observed at: the start,
\* just past the reset TTL, just past the session TTL
CoarseSeconds == {0, RESET_TTL_SECONDS + 1, SESSION_TTL_SECONDS + 1}

Tick ==
    /\ \E t \in CoarseSeconds : t * TicksPerSec > clock /\ clock' = t * TicksPerSec
    /\ UNCHANGED <<inflight, env, admin_users, pdf_assets, auth_users, sessions, issued, saltCtr, resp>>

\* instants at sub-second resolution around 0 and around each TTL
FineInstants ==
    {b * TicksPerSec + f : b \in {0, RESET_TTL_SECONDS, SESSION_TTL_SECONDS}, f \in 0..TicksPerSec}

TickFine ==
    /\ \E d \in {1, RESET_TTL_SECONDS * TicksPerSec, SESSION_TTL_SECONDS * TicksPerSec} :
          clock + d \in FineInstants /\ clock' = clock + d
    /\ UNCHANGED <<inflight, env, admin_users, pdf_assets, auth_users, sessions, issued, saltCtr, resp>>

\* the table owner marks an admin for rotation (nothing in the service does)
ExternalRequireReset ==
    /\ \E i \in 1..Len(admin_users) :
          /\ admin_users[i].flags["force_password_change"] = "false"
          /\ admin_users' = [admin_users EXCEPT ![i].flags["force_password_change"] = "true"]
    /\ UNCHANGED <<inflight, env, pdf_assets, auth_users, sessions, clock, issued, saltCtr, resp>>

(***************************************************************************)
(* routes/admin.py: POST /admin/login                                      *)
(***************************************************************************)
\* a test that takes every record for active
Active_whatever_the_field(row) == TRUE

Active(row) == ~(row.active # "absent" /\ ~as_bool(row.active))

\* the response of admin_login for a request body, when fetch_admin_user
\* returned row r (0: no row) and this is the nonce-th token generated
admin_login(body, r, nonce) ==
    LET raw_email == str_strip(OrElse(body.email, <<>>))
        password == str_strip(OrElse(body.password, <<>>))
        base == Response("admin_login", body, 200)
    IN  IF ~Truthy(raw_email) \/ ~Truthy(password) THEN [base EXCEPT !.status = 400]
        ELSE LET fetched == [base EXCEPT
                     !.calls = IF build_admin_client THEN <<"admin_users.select">> ELSE <<>>]
             IN
        IF r = 0 THEN [fetched EXCEPT !.status = 401]
        ELSE LET admin_row == admin_users[r]
                 email == OrElse(Get(admin_row.email), raw_email)
                 stored_value == StoredValue(admin_row)
                 vp == verify_password(password, stored_value)
                 found == [fetched EXCEPT !.row = r, !.seen = admin_row]
             IN
        IF ~Active(admin_row) THEN [found EXCEPT !.status = 403]
        ELSE IF vp.raised
        THEN \* the RuntimeError of verify_password is caught nowhere
             [found EXCEPT !.status = 500, !.escaped = TRUE]
        ELSE IF ~vp.matched THEN [found EXCEPT !.status = 401]
        ELSE IF requires_password_change(admin_row, vp.hashed)
        THEN [found EXCEPT !.matched = TRUE,
                           !.requires_password_change = "true",
                           !.reset_token = create_reset_token(email, stored_value, nonce)]
        ELSE [found EXCEPT !.matched = TRUE,
                           !.requires_password_change = "false",
                           !.email = email,
                           !.cookie = "admin_session",
                           !.max_age = SESSION_TTL_SECONDS,
                           !.cookie_value = create_session_token(email, stored_value, nonce)]

\* history record of a token the response hands out, with the reset token
\* the request presented for it, if any (the history keeps the first
\* MaxIssued tokens)
Issue(out, hash) ==
    LET token == IF out.reset_token # NoToken THEN out.reset_token ELSE out.cookie_value
        by == IF out.op = "admin_password" THEN out.req.reset_token ELSE NoToken
    IN  IF token.fmt = "ok" /\ Len(issued) < MaxIssued
        THEN Append(issued, [token |-> token, at |-> clock, hash |-> hash, op |-> out.op,
                             by |-> by])
        ELSE issued

AdminLogin ==
    \E body \in LoginBodies, dbRaises \in BOOLEAN :
        LET rows == fetch_admin_user(str_strip(body.email), dbRaises)
        IN  \E r \in (IF rows = {} THEN {0} ELSE rows) :
                LET out == admin_login(body, r, Len(issued) + 1)
                    issued2 == Issue(out, IF r = 0 THEN <<>> ELSE StoredValue(admin_users[r]))
                IN  /\ resp' = out
                    /\ issued' = issued2
                    /\ UNCHANGED <<inflight, env, admin_users, pdf_assets, auth_users, sessions, clock, saltCtr>>

(***************************************************************************)
(* routes/admin.py: POST /admin/password                                   *)
(***************************************************************************)
\* the response of admin_update_password, the table it leaves and whether it
\* drew a salt, when fetch_admin_user returned row r (0: no row)
admin_update_password(body, r, outcome, nonce) ==
    LET base == Response("admin_password", body, 200)
        payload == decode_reset_payload(body.reset_token)
        email == payload.email
        keep(out) == [out |-> out, table |-> admin_users, salted |-> FALSE, hash |-> <<>>]
    IN  IF payload = NoPayload THEN keep([base EXCEPT !.status = 400])
        ELSE IF ~Truthy(email) THEN keep([base EXCEPT !.status = 400])
        ELSE LET fetched == [base EXCEPT
                     !.calls = IF build_admin_client THEN <<"admin_users.select">> ELSE <<>>]
             IN
        IF r = 0 THEN keep([fetched EXCEPT !.status = 400])
        ELSE LET admin_row == admin_users[r]
                 canonical_email == OrElse(Get(admin_row.email), email)
                 stored_value == StoredValue(admin_row)
                 found == [fetched EXCEPT !.row = r, !.seen = admin_row]
                 new_password == str_strip(OrElse(body.new_password, <<>>))
                 new_hash == hash_password(new_password, saltCtr + 1)
                 update_payload == build_password_update_payload(admin_row, new_hash)
                 written == [found EXCEPT !.calls = @ \o <<"admin_users.update">>]
                 table2 == IF UpdateApplied(email, outcome)
                           THEN UpdatedTable(email, update_payload) ELSE admin_users
             IN
        IF ~Active(admin_row) THEN keep([found EXCEPT !.status = 403])
        ELSE IF ~Truthy(stored_value) THEN keep([found EXCEPT !.status = 400])
        ELSE IF verify_reset_token(body.reset_token, stored_value) = NoPayload
        THEN keep([found EXCEPT !.status = 400])
        ELSE IF Len(new_password) < 8 THEN keep([found EXCEPT !.status = 400])
        ELSE IF ~env.bcrypt
        THEN \* the RuntimeError of hash_password is caught nowhere
             keep([found EXCEPT !.status = 500, !.escaped = TRUE])
        ELSE IF ~update_admin_user(email, outcome)
        THEN [out |-> [written EXCEPT !.status = 500], table |-> table2, salted |-> TRUE,
              hash |-> new_hash]
        ELSE [out |-> [written EXCEPT
                          !.email = canonical_email,
                          !.cookie = "admin_session",
                          !.max_age = SESSION_TTL_SECONDS,
                          !.cookie_value = create_session_token(canonical_email, new_hash, nonce)],
              table |-> table2, salted |-> TRUE, hash |-> new_hash]

\* a token of the history relabelled with the other purpose, signature kept
Relabel(t) ==
    [t EXCEPT !.body.purpose = IF @ = "reset" THEN "session" ELSE "reset"]

\* what a client can present as a token: what it was handed, that relabelled,
\* the empty cookie value
PresentableTokens ==
    {issued[i].token : i \in 1..Len(issued)}
        \cup {Relabel(issued[i].token) : i \in 1..Len(issued)}
        \cup {EmptyToken}

AdminUpdatePassword ==
    \E token \in PresentableTokens, new_password \in NewPasswords,
       outcome \in {"ok", "fetch_raises", "raise", "raise_after"} :
        LET body == [reset_token |-> token, new_password |-> new_password]
            rows == fetch_admin_user(decode_reset_payload(token).email, outcome = "fetch_raises")
        IN  \E r \in (IF rows = {} THEN {0} ELSE rows) :
                LET res == admin_update_password(body, r, outcome, Len(issued) + 1)
                    issued2 == Issue(res.out, res.hash)
                IN  /\ res.salted => saltCtr <= MaxRotations
                    /\ resp' = res.out
                    /\ issued' = issued2
                    /\ admin_users' = res.table
                    /\ saltCtr' = IF res.salted THEN saltCtr + 1 ELSE saltCtr
                    /\ UNCHANGED <<inflight, env, pdf_assets, auth_users, sessions, clock>>

(***************************************************************************)
(* routes/admin.py: POST /admin/logout                                     *)
(***************************************************************************)
admin_logout ==
    [Response("admin_logout", [none |-> TRUE], 200) EXCEPT
        !.cookie = "admin_session", !.cookie_value = EmptyToken, !.max_age = 0]

\* a logout that also revokes: it resets the stored password of every admin
AdminLogout_revoking ==
    /\ resp' = admin_logout
    /\ admin_users' = [i \in 1..Len(admin_users) |->
                          [admin_users[i] EXCEPT !.password_hash = NoneStr]]
    /\ UNCHANGED <<inflight, env, pdf_assets, auth_users, sessions, clock, issued, saltCtr>>

AdminLogout ==
    /\ resp' = admin_logout
    /\ UNCHANGED <<inflight, env, admin_users, pdf_assets, auth_users, sessions, clock, issued, saltCtr>>

(***************************************************************************)
(* utils/admin_checks.py: the admin guard                                  *)
(***************************************************************************)
\* provider's auth.get_user(token): the user's email, NoneStr when it raises
\* or returns no user
get_user(token, providerRaises) ==
    IF ~providerRaises /\ \E s \in sessions : s.token = token
    THEN (CHOOSE s \in sessions : s.token = token).email
    ELSE NoneStr

\* require_admin(request): status 200 and the admin email, or the HTTP error
require_admin(cookies, providerRaises, dbRaises) ==
    LET token == cookies.sb_access_token
        email == get_user(token, providerRaises)
        out(status, calls) == [status |-> status, email |-> NoneStr, calls |-> calls]
    IN  IF token = "" THEN out(401, <<>>)
        ELSE IF ~build_supabase_public THEN out(401, <<>>)
        ELSE IF ~Truthy(email) THEN out(401, <<"auth.get_user">>)
        ELSE IF ~env.SUPABASE_SERVICE_ROLE_KEY THEN out(500, <<"auth.get_user">>)
        ELSE IF dbRaises \/ \E i \in 1..Len(admin_users) : admin_users[i].active = "absent"
        THEN out(500, <<"auth.get_user", "admin_users.select">>)
        ELSE IF ~\E i \in 1..Len(admin_users) :
                    admin_users[i].email = email /\ admin_users[i].active = "true"
        THEN out(403, <<"auth.get_user", "admin_users.select">>)
        ELSE [status |-> 200, email |-> email,
              calls |-> <<"auth.get_user", "admin_users.select">>]

Guarded(op, cookies, g) ==
    [Response(op, cookies, g.status) EXCEPT
        !.guard = IF g.status = 200 THEN "ok" ELSE "rejected",
        !.calls = g.calls]

\* cookies a client can send: a provider access token or none, and an
\* admin_session cookie it was handed or none
SessionCookies ==
    {NoToken} \cup {issued[i].token : i \in {j \in 1..Len(issued) : issued[j].token.body.purpose = "session"}}

RequestCookies ==
    [sb_access_token : {"", "tokA", "tokU"}, admin_session : SessionCookies]

\* GET /admin/me
admin_me(cookies, providerRaises, dbRaises) ==
    LET g == require_admin(cookies, providerRaises, dbRaises)
    IN  [Guarded("admin_me", cookies, g) EXCEPT !.email = g.email]

AdminMe ==
    \E cookies \in RequestCookies, fault \in {"none", "provider", "db"} :
        /\ resp' = admin_me(cookies, fault = "provider", fault = "db")
        /\ UNCHANGED <<inflight, env, admin_users, pdf_assets, auth_users, sessions, clock, issued, saltCtr>>

(***************************************************************************)
(* routes/admin.py: the pdf_assets manifest endpoints                      *)
(***************************************************************************)
ManifestCalls ==
    {"pdf_assets.select", "pdf_assets.insert", "pdf_assets.update", "pdf_assets.delete",
     "storage.create_signed_upload_url"}

\* an Optional[int] column or field is the set of its value, {} for null
PdfCreateBodies ==
    {[module |-> <<"m">>, lesson |-> NoneStr, path |-> <<"p">>, is_default |-> d,
      score_min |-> {}, score_max |-> {}, active |-> "true"] : d \in {"false", "true"}}

NoUpdate ==
    [module |-> NoneStr, lesson |-> NoneStr, path |-> NoneStr, is_default |-> "null",
     score_min |-> {}, score_max |-> {}, active |-> "null"]

PdfUpdateBodies ==
    {NoUpdate, [NoUpdate EXCEPT !.active = "false"], [NoUpdate EXCEPT !.path = <<"q">>]}

\* the rejection of a request the guard did not admit, table untouched
Rejected(op, cookies, g) == [out |-> Guarded(op, cookies, g), table |-> pdf_assets]

\* a handler's answer after the guard admitted the request
Admitted(op, cookies, g, status, calls, data, table) ==
    [out |-> [Guarded(op, cookies, g) EXCEPT
                 !.status = status, !.calls = @ \o calls, !.data = data],
     table |-> table]

\* GET /admin/pdfs
admin_list_pdfs(cookies, g, group, tableRaises) ==
    LET op == "admin_list_pdfs"
        items == {row \in pdf_assets.rows : Truthy(group) => row.group_key = group}
    IN  IF g.status # 200 THEN Rejected(op, cookies, g)
        ELSE IF ~build_supabase_public THEN Admitted(op, cookies, g, 500, <<>>, {}, pdf_assets)
        ELSE IF tableRaises
        THEN Admitted(op, cookies, g, 500, <<"pdf_assets.select">>, {}, pdf_assets)
        ELSE Admitted(op, cookies, g, 200, <<"pdf_assets.select">>, items, pdf_assets)

\* POST /admin/pdfs
admin_create_pdf(cookies, g, body, tableRaises) ==
    LET op == "admin_create_pdf"
        item == [id |-> pdf_assets.seq + 1, group_key |-> NoneStr, module |-> body.module,
                 lesson |-> body.lesson, path |-> body.path, is_default |-> body.is_default,
                 score_min |-> body.score_min, score_max |-> body.score_max,
                 active |-> body.active]
        table2 == [rows |-> pdf_assets.rows \cup {item}, seq |-> pdf_assets.seq + 1]
    IN  IF g.status # 200 THEN Rejected(op, cookies, g)
        ELSE IF ~build_supabase_public THEN Admitted(op, cookies, g, 500, <<>>, {}, pdf_assets)
        ELSE IF tableRaises
        THEN Admitted(op, cookies, g, 500, <<"pdf_assets.insert">>, {}, pdf_assets)
        ELSE Admitted(op, cookies, g, 200, <<"pdf_assets.insert">>, {item}, table2)

\* the row after update(update), update holding the body's fields that are set
ApplyPdfUpdate(row, body) ==
    [row EXCEPT !.module = IF body.module # NoneStr THEN body.module ELSE @,
                !.lesson = IF body.lesson # NoneStr THEN body.lesson ELSE @,
                !.path = IF body.path # NoneStr THEN body.path ELSE @,
                !.is_default = IF body.is_default # "null" THEN body.is_default ELSE @,
                !.score_min = IF body.score_min # {} THEN body.score_min ELSE @,
                !.score_max = IF body.score_max # {} THEN body.score_max ELSE @,
                !.active = IF body.active # "null" THEN body.active ELSE @]

\* PUT /admin/pdfs/{item_id}
admin_update_pdf(cookies, g, item_id, body, tableRaises) ==
    LET op == "admin_update_pdf"
        hit == {row \in pdf_assets.rows : row.id = item_id}
        table2 == [pdf_assets EXCEPT
                      !.rows = (@ \ hit) \cup {ApplyPdfUpdate(row, body) : row \in hit}]
    IN  IF g.status # 200 THEN Rejected(op, cookies, g)
        ELSE IF ~build_supabase_public THEN Admitted(op, cookies, g, 500, <<>>, {}, pdf_assets)
        ELSE IF body = NoUpdate THEN Admitted(op, cookies, g, 200, <<>>, {}, pdf_assets)
        ELSE IF tableRaises
        THEN Admitted(op, cookies, g, 500, <<"pdf_assets.update">>, {}, pdf_assets)
        ELSE Admitted(op, cookies, g, 200, <<"pdf_assets.update">>,
                      {ApplyPdfUpdate(row, body) : row \in hit}, table2)

\* the delete handler without the guard's verdict
admin_delete_pdf_unguarded(cookies, g, item_id, tableRaises) ==
    Admitted("admin_delete_pdf", cookies, g, 200, <<"pdf_assets.delete">>,
             {row \in pdf_assets.rows : row.id = item_id},
             [pdf_assets EXCEPT !.rows = {row \in @ : row.id # item_id}])

\* DELETE /admin/pdfs/{item_id}
admin_delete_pdf(cookies, g, item_id, tableRaises) ==
    LET op == "admin_delete_pdf"
        hit == {row \in pdf_assets.rows : row.id = item_id}
        table2 == [pdf_assets EXCEPT !.rows = @ \ hit]
    IN  IF g.status # 200 THEN Rejected(op, cookies, g)
        ELSE IF ~build_supabase_public THEN Admitted(op, cookies, g, 500, <<>>, {}, pdf_assets)
        ELSE IF tableRaises
        THEN Admitted(op, cookies, g, 500, <<"pdf_assets.delete">>, {}, pdf_assets)
        ELSE Admitted(op, cookies, g, 200, <<"pdf_assets.delete">>, hit, table2)

GuardFaults == {"none", "provider", "db"}

\* the guard's verdict on a request, as the handler's first statement
Verdict(cookies, fault) == require_admin(cookies, fault = "provider", fault = "db")

AdminListPdfs ==
    \E cookies \in RequestCookies, fault \in GuardFaults, tableRaises \in BOOLEAN,
       group \in {NoneStr, <<"g">>} :
        LET res == admin_list_pdfs(cookies, Verdict(cookies, fault), group, tableRaises)
        IN  /\ resp' = res.out
            /\ pdf_assets' = res.table
            /\ UNCHANGED <<inflight, env, admin_users, auth_users, sessions, clock, issued, saltCtr>>

AdminCreatePdf ==
    \E cookies \in RequestCookies, fault \in GuardFaults, tableRaises \in BOOLEAN,
       body \in PdfCreateBodies :
        LET res == admin_create_pdf(cookies, Verdict(cookies, fault), body, tableRaises)
        IN  /\ res.table.seq <= MaxPdfRows
            /\ resp' = res.out
            /\ pdf_assets' = res.table
            /\ UNCHANGED <<inflight, env, admin_users, auth_users, sessions, clock, issued, saltCtr>>

AdminUpdatePdf ==
    \E cookies \in RequestCookies, fault \in GuardFaults, tableRaises \in BOOLEAN,
       item_id \in 1..MaxPdfRows, body \in PdfUpdateBodies :
        LET res == admin_update_pdf(cookies, Verdict(cookies, fault), item_id, body, tableRaises)
        IN  /\ resp' = res.out
            /\ pdf_assets' = res.table
            /\ UNCHANGED <<inflight, env, admin_users, auth_users, sessions, clock, issued, saltCtr>>

AdminDeletePdf ==
    \E cookies \in RequestCookies, fault \in GuardFaults, tableRaises \in BOOLEAN,
       item_id \in 1..MaxPdfRows :
        LET res == admin_delete_pdf(cookies, Verdict(cookies, fault), item_id, tableRaises)
        IN  /\ resp' = res.out
            /\ pdf_assets' = res.table
            /\ UNCHANGED <<inflight, env, admin_users, auth_users, sessions, clock, issued, saltCtr>>

(***************************************************************************)
(* routes/admin.py, utils/admin_checks.py: signed upload URLs              *)
(***************************************************************************)
\* s.split("/")[-1]
RECURSIVE last_segment(_)
last_segment(s) ==
    IF s = <<>> \/ s[Len(s)] = "/" THEN <<>>
    ELSE Append(last_segment(SubSeq(s, 1, Len(s) - 1)), s[Len(s)])

\* s.lstrip("/")
RECURSIVE lstrip_slash(_)
lstrip_slash(s) == IF s # <<>> /\ Head(s) = "/" THEN lstrip_slash(Tail(s)) ELSE s

\* object path of the upload: under dest_path when that names a folder
final_path(dest_path, filename) ==
    IF dest_path = <<>> \/ dest_path[Len(dest_path)] = "/"
    THEN lstrip_slash(dest_path \o last_segment(filename))
    ELSE lstrip_slash(dest_path)

\* create_signed_upload_url(...) is a storage call when a service key is set
create_signed_upload_url == env.SUPABASE_SERVICE_ROLE_KEY /\ env.supabase_sdk

UploadForms ==
    {[bucket |-> b, dest_path |-> d, filename |-> <<"x", "/", "f">>] :
        b \in {<<"b">>, <<" ">>}, d \in {<<>>, <<"/", "d", "/">>, <<"/", "d", " ">>}}

\* POST /admin/upload-url
admin_create_upload_url(cookies, g, form, storageFails) ==
    LET op == "admin_create_upload_url"
        path == final_path(str_strip(form.dest_path), form.filename)
        signed == {[bucket |-> form.bucket, path |-> path]}
    IN  IF g.status # 200 THEN Rejected(op, cookies, g)
        ELSE IF ~build_supabase_public THEN Admitted(op, cookies, g, 500, <<>>, {}, pdf_assets)
        ELSE IF ~create_signed_upload_url
        THEN Admitted(op, cookies, g, 500, <<>>, {}, pdf_assets)
        ELSE IF storageFails
        THEN Admitted(op, cookies, g, 500, <<"storage.create_signed_upload_url">>, {}, pdf_assets)
        ELSE Admitted(op, cookies, g, 200, <<"storage.create_signed_upload_url">>, signed,
                      pdf_assets)

\* handle_admin_upload(request), serving POST .../admin/upload-url of the
\* catch-all routes
handle_admin_upload(cookies, g, form, storageFails) ==
    LET op == "handle_admin_upload"
        bucket == str_strip(form.bucket)
        filename == str_strip(form.filename)
        path == final_path(str_strip(form.dest_path), filename)
        signed == {[bucket |-> bucket, path |-> path]}
    IN  IF g.status # 200 THEN Rejected(op, cookies, g)
        ELSE IF bucket = <<>> \/ filename = <<>>
        THEN Admitted(op, cookies, g, 400, <<>>, {}, pdf_assets)
        ELSE IF ~build_supabase_public THEN Admitted(op, cookies, g, 500, <<>>, {}, pdf_assets)
        ELSE IF ~create_signed_upload_url
        THEN Admitted(op, cookies, g, 500, <<>>, {}, pdf_assets)
        ELSE IF storageFails
        THEN Admitted(op, cookies, g, 500, <<"storage.create_signed_upload_url">>, {}, pdf_assets)
        ELSE Admitted(op, cookies, g, 200, <<"storage.create_signed_upload_url">>, signed,
                      pdf_assets)

AdminCreateUploadUrl ==
    \E cookies \in RequestCookies, fault \in GuardFaults, storageFails \in BOOLEAN,
       form \in UploadForms :
        /\ resp' = admin_create_upload_url(cookies, Verdict(cookies, fault), form, storageFails).out
        /\ UNCHANGED <<inflight, env, admin_users, pdf_assets, auth_users, sessions, clock, issued, saltCtr>>

HandleAdminUpload ==
    \E cookies \in RequestCookies, fault \in GuardFaults, storageFails \in BOOLEAN,
       form \in UploadForms :
        /\ resp' = handle_admin_upload(cookies, Verdict(cookies, fault), form, storageFails).out
        /\ UNCHANGED <<inflight, env, admin_users, pdf_assets, auth_users, sessions, clock, issued, saltCtr>>

(***************************************************************************)
(* utils/crypto_utils.py: the encrypted /auth payload                      *)
(***************************************************************************)
\* JSON object of the fields a client encrypts; a key it leaves out is NoneStr
AuthFields(email, password, first_name, last_name, rtk) ==
    [email |-> email, password |-> password, first_name |-> first_name,
     last_name |-> last_name, rtk |-> rtk]

NoFields == AuthFields(NoneStr, NoneStr, NoneStr, NoneStr, NoneStr)

\* the enc field of a request: not sent, the empty string, a string that is
\* no ciphertext, or the RSA-OAEP encryption under some public key of a text
\* that is a JSON object, another JSON value or no JSON
Enc(kind, key, json, fields) == [kind |-> kind, key |-> key, json |-> json, fields |-> fields]

EncAbsent == Enc("none", "-", "-", NoFields)
EncEmpty == Enc("empty", "-", "-", NoFields)
EncGarbage == Enc("garbage", "-", "-", NoFields)

\* enc is truthy
EncPresent(enc) == enc.kind \notin {"none", "empty"}

\* load_private_key(): needs the cryptography library (the one import that
\* also provides AESGCM) and a key in the environment or the key file
load_private_key == env.AESGCM /\ env.AUTH_PRIVATE_KEY

\* a decryption that hands back an empty dict where it has no result
decrypt_auth_payload_lenient(enc) == [ok |-> EncPresent(enc), fields |-> NoFields]

\* a decryption that does not notice a foreign key
decrypt_auth_payload_any_key(enc) ==
    IF EncPresent(enc) /\ load_private_key /\ enc.kind = "cipher" /\ enc.json = "dict"
    THEN [ok |-> TRUE, fields |-> enc.fields]
    ELSE [ok |-> FALSE, fields |-> NoFields]

\* decrypt_auth_payload(enc_b64): the dict, or ok = FALSE for None
decrypt_auth_payload(enc) ==
    LET none == [ok |-> FALSE, fields |-> NoFields]
    IN  IF ~EncPresent(enc) THEN none
        ELSE IF ~load_private_key THEN none
        ELSE IF enc.kind # "cipher" THEN none
        ELSE IF enc.key # "server" THEN none
        ELSE IF enc.json # "dict" THEN none
        ELSE [ok |-> TRUE, fields |-> enc.fields]

(***************************************************************************)
(* utils/crypto_utils.py: the encrypted profile                            *)
(***************************************************************************)
\* A return key is a string written in units of base64 text: "q" is a group
\* of four alphabet characters (three bytes), "p1" and "p2" are the final
\* groups xx== (one byte) and xxx= (two bytes), "x" is one alphabet character
\* on its own and "!" a character outside the alphabet.
Quads(n) == [i \in 1..n |-> "q"]

Key16 == Quads(5) \o <<"p1">>
Key24 == Quads(8)
Key32 == Quads(10) \o <<"p2">>
Key3 == Quads(1)
Key33 == Quads(11)
KeyStray == Quads(8) \o <<"x">>
KeyNoisy == <<"!">> \o Quads(8)

RECURSIVE Discard(_)
\* the string without the characters outside the base64 alphabet
Discard(s) ==
    IF s = <<>> THEN <<>>
    ELSE IF Head(s) = "!" THEN Discard(Tail(s))
    ELSE <<Head(s)>> \o Discard(Tail(s))

RECURSIVE Bytes(_)
Bytes(s) ==
    IF s = <<>> THEN 0
    ELSE (IF Head(s) = "q" THEN 3 ELSE IF Head(s) = "p2" THEN 2 ELSE 1) + Bytes(Tail(s))

\* base64.b64decode(s): characters outside the alphabet are discarded; what
\* is left must be whole groups, or binascii.Error is raised
b64decode(s) ==
    LET kept == Discard(s)
    IN  IF \E i \in 1..Len(kept) : kept[i] = "x"
        THEN [raised |-> TRUE, len |-> 0]
        ELSE [raised |-> FALSE, len |-> Bytes(kept)]

\* an encryption that takes whatever decodes
aesgcm_encrypt_profile_any_length(return_key_b64) ==
    Truthy(return_key_b64) /\ env.AESGCM /\ ~b64decode(return_key_b64).raised

\* aesgcm_encrypt_profile(return_key_b64, profile) yields a block (TRUE) or
\* None (FALSE); every exception inside it is caught
aesgcm_encrypt_profile(return_key_b64) ==
    IF ~Truthy(return_key_b64) \/ ~env.AESGCM THEN FALSE
    ELSE LET key == b64decode(return_key_b64)
         IN  IF key.raised THEN FALSE
             ELSE key.len \in {16, 24, 32}

\* json.dumps(profile): the text, as the values in the order of the keys
json_dumps(profile) ==
    <<"{", profile.first_name, profile.last_name, profile.name, profile.email, "}">>

\* AES-GCM is ideal: a ciphertext with its tag opens to the data under the
\* key, nonce and associated data it was made with, and to nothing otherwise
AESGCM_encrypt(key, nonce, data, associated_data) ==
    [key |-> key, nonce |-> nonce, data |-> data, associated_data |-> associated_data]

AESGCM_decrypt(key, nonce, ct, associated_data) ==
    IF ct.key = key /\ ct.nonce = nonce /\ ct.associated_data = associated_data
    THEN ct.data
    ELSE <<"InvalidTag">>

\* base64 text of a value that is not a return key, and its decoding
b64encode(bytes) == [b64 |-> bytes]
b64decode_text(text) == text.b64

\* nonces os.urandom(12) can return
Nonces == {[len |-> 12, bytes |-> r] : r \in {"r1", "r2"}}

\* an encryption that hands back another nonce than the one it used
encrypted_block_stale_iv(return_key_b64, profile, iv) ==
    [enc_profile |-> b64encode(AESGCM_encrypt(Discard(return_key_b64), iv,
                                              json_dumps(profile), "none")),
     iv |-> b64encode([iv EXCEPT !.bytes = "r0"]),
     alg |-> "AES-GCM"]

\* the dict aesgcm_encrypt_profile returns when it returns one; iv is what
\* os.urandom(12) gave
encrypted_block(return_key_b64, profile, iv) ==
    [enc_profile |-> b64encode(AESGCM_encrypt(Discard(return_key_b64), iv,
                                              json_dumps(profile), "none")),
     iv |-> b64encode(iv),
     alg |-> "AES-GCM"]

(***************************************************************************)
(* The identity provider                                                   *)
(***************************************************************************)
FreshTokens == <<"tok1", "tok2", "tok3", "tok4">>

\* auth.sign_in_with_password: the user the credentials belong to, if any
sign_in_with_password(email, password) ==
    {u \in auth_users : u.email = email /\ u.password = password}

\* users of the table whose email equals email ignoring case
UsersByEmail(email) == {u \in auth_users : str_lower(u.email) = str_lower(email)}

\* admin_get_user_by_email_rest(supabase_url, service_key, email), the REST
\* endpoint answering or failing on both attempts
admin_get_user_by_email_rest(email, restFails) ==
    /\ env.SUPABASE_SERVICE_ROLE_KEY
    /\ ~restFails
    /\ UsersByEmail(email) # {}

(***************************************************************************)
(* index.py, routes/user.py: POST /auth                                    *)
(***************************************************************************)
\* first_name and str(first_name).strip()
NameGiven(name) == Truthy(name) /\ str_strip(name) # <<>>

ModeLogin == <<"l", "o", "g", "i", "n">>
ModeSignup == <<"s", "i", "g", "n", "u", "p">>

\* what auth works with: the mode and the credentials, each field taken from
\* the decrypted payload where that has it and from the body otherwise
AuthInputs(data) ==
    LET decrypted == decrypt_auth_payload(data.enc)
        d == decrypted.fields
    IN  [mode |-> str_strip(str_lower(OrElse(data.mode, <<>>))),
         rejected |-> EncPresent(data.enc) /\ ~decrypted.ok,
         email |-> normalize_email(OrElse(d.email, OrElse(data.email, <<>>))),
         password |-> OrElse(d.password, OrElse(data.password, <<>>)),
         first_name |-> OrElse(d.first_name, data.first_name),
         last_name |-> OrElse(d.last_name, data.last_name),
         return_key_b64 |-> d.rtk]

\* the provider's tables as a handler leaves them, with its answer
Kept(out) == [out |-> out, users |-> auth_users, sessions |-> sessions]

\* the login branch.  provider: what the provider does with a well-formed
\* call ("ok", "raise")
auth_login_also_signs_up(base, in, provider) ==
    Kept([base EXCEPT !.calls = <<"auth.sign_in_with_password", "auth.sign_up">>])

auth_login(base, in, provider) ==
    LET hit == sign_in_with_password(in.email, in.password)
        token == FreshTokens[Cardinality(sessions) + 1]
        signin == [call |-> "sign_in_with_password", email |-> in.email,
                   password |-> in.password, first_name |-> NoneStr, last_name |-> NoneStr]
        enrich == IF env.SUPABASE_SERVICE_ROLE_KEY THEN <<"profiles.select">> ELSE <<>>
        called == [base EXCEPT !.calls = <<"auth.sign_in_with_password">>, !.data = {signin}]
    IN  IF provider = "raise"
        THEN Kept([called EXCEPT !.status = 409, !.detail = "provider",
                                 !.raised = "auth.sign_in_with_password"])
        ELSE IF hit = {} THEN Kept([called EXCEPT !.status = 409, !.detail = "provider"])
        ELSE [out |-> [called EXCEPT !.calls = @ \o enrich,
                                     !.cookie = "sb_access_token",
                                     !.access_token = token,
                                     !.enc_profile = aesgcm_encrypt_profile(in.return_key_b64)],
              users |-> auth_users,
              sessions |-> sessions \cup {[token |-> token, email |-> in.email]}]

\* the signup branch.  restFails: the admin REST endpoint fails on both
\* attempts; upsert: which profiles upsert goes through ("full", "name_only",
\* "fail")
auth_signup(base, in, provider, restFails, upsert) ==
    LET service_key == env.SUPABASE_SERVICE_ROLE_KEY
        lookup == IF service_key THEN <<"auth.admin.users">> ELSE <<>>
        first_name == str_strip(in.first_name)
        last_name == str_strip(in.last_name)
        signup == [call |-> "sign_up", email |-> in.email, password |-> in.password,
                   first_name |-> first_name, last_name |-> last_name]
        user == [email |-> in.email, password |-> in.password,
                 first_name |-> first_name, last_name |-> last_name,
                 profile |-> IF ~service_key \/ upsert = "fail" THEN "none" ELSE upsert]
        upserts == IF ~service_key THEN <<>>
                   ELSE IF upsert = "full" THEN <<"profiles.upsert">>
                   ELSE <<"profiles.upsert", "profiles.upsert">>
        looked == [base EXCEPT !.calls = lookup]
        called == [base EXCEPT !.calls = lookup \o <<"auth.sign_up">>, !.data = {signup}]
    IN  IF admin_get_user_by_email_rest(in.email, restFails)
        THEN Kept([looked EXCEPT !.status = 409, !.detail = "fixed"])
        ELSE IF ~NameGiven(in.first_name) \/ ~NameGiven(in.last_name)
        THEN \* the HTTPException(400) is caught by the handler's own except clause
             Kept([looked EXCEPT !.status = 409, !.detail = "fixed"])
        ELSE IF provider = "raise"
        THEN Kept([called EXCEPT !.status = 409, !.detail = "provider",
                                 !.raised = "auth.sign_up"])
        ELSE IF UsersByEmail(in.email) # {}
        THEN \* the provider answers with an obfuscated user, its table unchanged
             Kept([called EXCEPT !.calls = @ \o upserts, !.plain = {"email"}])
        ELSE [out |-> [called EXCEPT !.calls = @ \o upserts, !.email = in.email,
                                     !.plain = {"email"}],
              users |-> auth_users \cup {user},
              sessions |-> sessions]

\* auth(data, response)
auth(data, provider, restFails, upsert) ==
    LET base == Response("auth", data, 200)
        in == AuthInputs(data)
    IN  IF in.rejected THEN Kept([base EXCEPT !.status = 400, !.detail = "fixed"])
        ELSE IF in.mode \notin {ModeLogin, ModeSignup}
        THEN Kept([base EXCEPT !.status = 400, !.detail = "fixed"])
        ELSE IF ~build_supabase_public
        THEN Kept([base EXCEPT !.status = 500, !.detail = "configuration"])
        ELSE IF in.mode = ModeLogin THEN auth_login(base, in, provider)
        ELSE auth_signup(base, in, provider, restFails, upsert)

\* request bodies
AuthModes ==
    {ModeLogin, <<" ", "L", "o", "G", "i", "n", "\t">>, <<"S", "i", "g", "n", "U", "p", " ">>,
     <<"l", "o", "g", "o", "u", "t">>}

NewEmail == <<"n", "@", "x">>
FirstName == <<"F">>
LastName == <<"L">>
ReturnKey == Key32

PlainFields ==
    {NoFields,
     AuthFields(<<" ", "U", "@", "x">>, Pw1, FirstName, LastName, NoneStr),
     AuthFields(NewEmail, Pw1, FirstName \o <<" ">>, LastName, NoneStr),
     AuthFields(NewEmail, Pw1, <<" ">>, LastName, NoneStr)}

EncFields ==
    {EncAbsent, EncEmpty, EncGarbage,
     Enc("cipher", "other", "dict", AuthFields(UserEmail, Pw1, FirstName, LastName, ReturnKey)),
     Enc("cipher", "server", "list", NoFields),
     Enc("cipher", "server", "dict", AuthFields(UserEmail, Pw1, FirstName, LastName, ReturnKey)),
     Enc("cipher", "server", "dict", AuthFields(UserEmail, NoneStr, NoneStr, NoneStr, NoneStr))}

AuthRequest(m, p, e) ==
    [mode |-> m, email |-> p.email, password |-> p.password, first_name |-> p.first_name,
     last_name |-> p.last_name, enc |-> e]

\* plaintext requests in every mode, and logins and signups with an enc field
\* beside no or some plaintext fields
AuthRequests ==
    {AuthRequest(m, p, EncAbsent) : m \in AuthModes, p \in PlainFields}
        \cup {AuthRequest(m, p, e) : m \in {ModeLogin, <<"S", "i", "g", "n", "U", "p", " ">>},
                 e \in EncFields \ {EncAbsent},
                 p \in {NoFields, AuthFields(NewEmail, Pw1, FirstName \o <<" ">>, LastName, NoneStr)}}

AuthFaults == {"none", "provider", "rest", "upsert_name_only", "upsert_fail"}

Auth ==
    \E data \in AuthRequests, fault \in AuthFaults :
        LET res == auth(data, IF fault = "provider" THEN "raise" ELSE "ok", fault = "rest",
                        IF fault = "upsert_name_only" THEN "name_only"
                        ELSE IF fault = "upsert_fail" THEN "fail" ELSE "full")
        IN  /\ Cardinality(res.sessions) <= MaxSessions
            /\ resp' = res.out
            /\ auth_users' = res.users
            /\ sessions' = res.sessions
            /\ UNCHANGED <<inflight, env, admin_users, pdf_assets, clock, issued, saltCtr>>

(***************************************************************************)
(* index.py, routes/user.py: POST /profile                                 *)
(***************************************************************************)
\* fetch_profile_admin_sdk(supabase_url, service_key, user_id, email): the
\* calls it makes
fetch_profile_admin_sdk ==
    IF env.SUPABASE_SERVICE_ROLE_KEY /\ env.supabase_sdk THEN <<"profiles.select">> ELSE <<>>

\* the profile object of the user: names from the profile row or the sign-up
\* metadata, the full name, the email
pii(email) ==
    LET u == CHOOSE u \in auth_users : u.email = email
    IN  [first_name |-> u.first_name, last_name |-> u.last_name,
         name |-> u.first_name \o <<" ">> \o u.last_name, email |-> email]

\* get_profile(req, request).  fault: auth.get_user raises ("raise") or
\* answers ("none"); for a token it does not know it answers with no user
get_profile(token, rtk, fault, iv) ==
    LET base == Response("get_profile", [sb_access_token |-> token, rtk |-> rtk], 200)
        asked == [base EXCEPT !.calls = <<"auth.get_user">>]
        user == {s \in sessions : s.token = token}
    IN  IF token = "" THEN [base EXCEPT !.status = 401, !.detail = "fixed"]
        ELSE IF ~build_supabase_public
        THEN [base EXCEPT !.status = 500, !.detail = "configuration"]
        ELSE IF fault = "raise"
        THEN [asked EXCEPT !.status = 500, !.detail = "fixed", !.raised = "auth.get_user"]
        ELSE IF user = {} THEN [asked EXCEPT !.status = 401, !.detail = "fixed"]
        ELSE LET fetched == [asked EXCEPT !.calls = @ \o fetch_profile_admin_sdk,
                                          !.email = (CHOOSE s \in user : TRUE).email]
             IN  IF ~aesgcm_encrypt_profile(rtk)
                 THEN [fetched EXCEPT !.status = 400, !.detail = "fixed"]
                 ELSE [fetched EXCEPT
                          !.enc_profile = TRUE,
                          !.blob = encrypted_block(rtk, pii((CHOOSE s \in user : TRUE).email), iv)]

ProfileTokens == {"", "tok1", "stale"}

\* ProfileReq.rtk is a required string
ProfileKeys == {<<>>, Key16, Key24, Key32, Key3, Key33, KeyStray, KeyNoisy}

\* logins of the registered user, the return key inside the encrypted payload
LoginRequests ==
    {AuthRequest(ModeLogin, p, e) :
        p \in {NoFields, AuthFields(UserEmail, Pw1, NoneStr, NoneStr, NoneStr),
               AuthFields(UserEmail, Pw2, NoneStr, NoneStr, NoneStr)},
        e \in {EncAbsent,
               Enc("cipher", "server", "dict", AuthFields(UserEmail, Pw1, NoneStr, NoneStr, Key32)),
               Enc("cipher", "server", "dict", AuthFields(UserEmail, Pw1, NoneStr, NoneStr, Key3)),
               Enc("cipher", "server", "dict", AuthFields(NoneStr, NoneStr, NoneStr, NoneStr, Key16))}}

\* POST /auth of a client that logs in
Login ==
    \E data \in LoginRequests, provider \in {"ok", "raise"} :
        LET res == auth(data, provider, FALSE, "full")
        IN  /\ Cardinality(res.sessions) <= MaxSessions
            /\ resp' = res.out
            /\ auth_users' = res.users
            /\ sessions' = res.sessions
            /\ UNCHANGED <<inflight, env, admin_users, pdf_assets, clock, issued, saltCtr>>

GetProfile ==
    \E token \in ProfileTokens, rtk \in ProfileKeys, fault \in {"none", "raise"},
       iv \in Nonces :
        /\ resp' = get_profile(token, rtk, fault, iv)
        /\ UNCHANGED <<inflight, env, admin_users, pdf_assets, auth_users, sessions, clock, issued, saltCtr>>

(***************************************************************************)
(* utils/user_content.py, utils/supabase_utils.py: the manifest query      *)
(***************************************************************************)
\* PostgREST filters on a row
eq(col, val) == [kind |-> "eq", col |-> col, val |-> val]
is_null(col) == [kind |-> "is_null", col |-> col]
lte(col, val) == [kind |-> "lte", col |-> col, val |-> val]
gte(col, val) == [kind |-> "gte", col |-> col, val |-> val]
or_(alts) == [kind |-> "or", alts |-> alts]

\* a comparison with a null column is not true
Simple(row, f) ==
    IF f.kind = "eq" THEN row[f.col] = f.val
    ELSE IF f.kind = "is_null" THEN row[f.col] = {}
    ELSE IF f.kind = "lte" THEN \E x \in row[f.col] : x <= f.val
    ELSE \E x \in row[f.col] : x >= f.val

Holds(row, f) ==
    IF f.kind = "or" THEN \E i \in 1..Len(f.alts) : Simple(row, f.alts[i])
    ELSE Simple(row, f)

\* a score filter that forgets the upper bound
score_filters_without_max(score) ==
    IF score = {} THEN <<eq("is_default", "true")>>
    ELSE LET s == CHOOSE x \in score : TRUE
         IN  <<or_(<<is_null("score_min"), lte("score_min", s)>>)>>

\* the filters added for score (None: {})
score_filters(score) ==
    IF score = {} THEN <<eq("is_default", "true")>>
    ELSE LET s == CHOOSE x \in score : TRUE
         IN  <<or_(<<is_null("score_min"), lte("score_min", s)>>),
               or_(<<is_null("score_max"), gte("score_max", s)>>)>>

\* the rows a query with these filters finds: every filter holds
Select(filters) ==
    {row \in pdf_assets.rows : \A i \in 1..Len(filters) : Holds(row, filters[i])}

\* ORDER BY, on the single characters the lesson and path values are made of
Alphabet == <<"1", "2", "a", "b", "c", "d", "l", "p", "q">>

Ord(ch) == CHOOSE i \in 1..Len(Alphabet) : Alphabet[i] = ch

RECURSIVE StrLess(_, _)
StrLess(a, b) ==
    IF b = <<>> THEN FALSE
    ELSE IF a = <<>> THEN TRUE
    ELSE IF Head(a) = Head(b) THEN StrLess(Tail(a), Tail(b))
    ELSE Ord(Head(a)) < Ord(Head(b))

\* ascending with nulls last
ColLess(a, b) == a # NoneStr /\ (b = NoneStr \/ StrLess(a, b))

\* .order("lesson").order("path"); rows equal in both come in id order
ByLessonPath(r1, r2) ==
    \/ ColLess(r1.lesson, r2.lesson)
    \/ r1.lesson = r2.lesson /\ ColLess(r1.path, r2.path)
    \/ r1.lesson = r2.lesson /\ r1.path = r2.path /\ r1.id < r2.id

\* .order("order_index"), a column no row has a value in: id order
ByOrderIndex(r1, r2) == r1.id < r2.id

\* .limit(n) after the ordering
FirstByLessonPath(rows, n) ==
    {r \in rows : Cardinality({o \in rows : ByLessonPath(o, r)}) < n}

FirstByOrderIndex(rows, n) ==
    {r \in rows : Cardinality({o \in rows : ByOrderIndex(o, r)}) < n}

\* max(1, min(int(limit or 10), 100))
clamp_limit(limit) ==
    LET n == IF limit = 0 THEN 10 ELSE limit
        low == IF n < 100 THEN n ELSE 100
    IN  IF low > 1 THEN low ELSE 1

\* core_supabase.create_signed_storage_url: the function ends after its
\* configuration test, so it returns None either way
core_create_signed_storage_url(storage_ok) ==
    IF ~env.SUPABASE_SERVICE_ROLE_KEY \/ ~env.supabase_sdk THEN FALSE ELSE FALSE

\* supabase_utils.create_signed_storage_url: the URL the storage hands out
create_signed_storage_url(storage_ok) ==
    IF ~env.SUPABASE_SERVICE_ROLE_KEY \/ ~env.supabase_sdk THEN FALSE ELSE storage_ok

Item(row) == [id |-> row.id, path |-> row.path, signed_url |-> TRUE]

\* user_content.fetch_pdfs_from_manifest(module, lesson, score, limit),
\* as list_pdfs of routes/user.py answers with it
list_pdfs_by_module(req) ==
    LET base == Response("list_pdfs_by_module", req, 200)
        limit == clamp_limit(req.limit)
        module == str_strip(OrElse(req.key, <<>>))
        lesson_filter == str_strip(OrElse(req.lesson, <<>>))
        filters == <<eq("module", module), eq("active", "true")>>
                       \o (IF Truthy(lesson_filter) THEN <<eq("lesson", lesson_filter)>> ELSE <<>>)
                       \o score_filters(req.score)
        items == FirstByLessonPath(Select(filters), limit)
    IN  IF ~Truthy(req.key) THEN [base EXCEPT !.status = 400]
        ELSE IF ~Truthy(module) THEN base
        ELSE IF ~build_supabase_public THEN base
        ELSE IF ~env.SUPABASE_SERVICE_ROLE_KEY THEN base
        ELSE [base EXCEPT
                 !.calls = <<"pdf_assets.select">>,
                 !.selected = items,
                 !.data = {Item(row) : row \in {it \in items :
                              core_create_signed_storage_url(req.storage_ok)}}]

\* supabase_utils.fetch_pdfs_from_manifest(group, score, limit), as list_pdfs
\* of index.py answers with it
list_pdfs_by_group(req) ==
    LET base == Response("list_pdfs_by_group", req, 200)
        limit == clamp_limit(req.limit)
        filters == <<eq("group_key", req.key), eq("active", "true")>> \o score_filters(req.score)
        items == FirstByOrderIndex(Select(filters), limit)
    IN  IF ~Truthy(req.key) \/ ~env.supabase_sdk THEN base
        ELSE IF ~build_supabase_public THEN base
        ELSE IF ~env.SUPABASE_SERVICE_ROLE_KEY THEN base
        ELSE [base EXCEPT
                 !.calls = <<"pdf_assets.select">> \o
                           [i \in 1..Cardinality(items) |-> "storage.create_signed_url"],
                 !.selected = items,
                 !.data = {Item(row) : row \in {it \in items :
                              create_signed_storage_url(req.storage_ok)}}]

\* query parameters, and whether the storage provider signs during the request
ContentRequests(keys) ==
    [key : keys, lesson : {NoneStr, <<"l", "1">>, <<" ", "l", "1">>},
     score : {{}, {0}, {50}, {51}}, limit : {0, 1, 10}, storage_ok : BOOLEAN]

ListPdfsByModule ==
    \E req \in ContentRequests({<<"m">>, <<" ", "m">>, <<"n">>, <<>>}) :
        /\ resp' = list_pdfs_by_module(req)
        /\ UNCHANGED <<inflight, env, admin_users, pdf_assets, auth_users, sessions, clock, issued, saltCtr>>

ListPdfsByGroup ==
    \E req \in ContentRequests({<<"g">>, <<"h">>}) :
        /\ req.lesson = NoneStr
        /\ resp' = list_pdfs_by_group(req)
        /\ UNCHANGED <<inflight, env, admin_users, pdf_assets, auth_users, sessions, clock, issued, saltCtr>>

(***************************************************************************)
(* index.py, routes/user.py: the route tables and first-match dispatch     *)
(***************************************************************************)
PathRoot == <<"/">>
PathAuth == <<"/", "a", "u", "t", "h">>
PathProfile == <<"/", "p", "r", "o", "f", "i", "l", "e">>
PathPdfs == <<"/", "p", "d", "f", "s">>
PathAdminPdfs == <<"/", "a", "d", "m", "i", "n", "/", "p", "d", "f", "s">>
PathAdminPdfsItem == <<"/", "a", "d", "m", "i", "n", "/", "p", "d", "f", "s", "/">>

\* a route: the methods it serves, its path pattern and its handler.  kind
\* "exact" is a literal path, "path" is prefix + {_path:path}, "param" is
\* prefix + {item_id}
Route(methods, kind, prefix, handler) ==
    [methods |-> methods, kind |-> kind, prefix |-> prefix, handler |-> handler]

\* @app.get also serves HEAD
GetMethods == {"GET", "HEAD"}

\* the routes of index.py in the order they are registered
IndexRoutes ==
    <<Route(GetMethods, "exact", PathRoot, "root"),
      Route({"POST"}, "exact", PathAuth, "auth"),
      Route({"POST"}, "exact", PathRoot, "auth_root"),
      Route({"POST"}, "path", PathRoot, "auth_any_path"),
      Route(GetMethods, "path", PathRoot, "get_any_path"),
      Route({"POST"}, "exact", PathProfile, "get_profile"),
      Route(GetMethods, "exact", PathPdfs, "list_pdfs"),
      Route(GetMethods, "exact", PathAdminPdfs, "admin_list_pdfs"),
      Route({"POST"}, "exact", PathAdminPdfs, "admin_create_pdf"),
      Route({"PUT"}, "param", PathAdminPdfsItem, "admin_update_pdf"),
      Route({"DELETE"}, "param", PathAdminPdfsItem, "admin_delete_pdf")>>

\* the routes of routes/user.py in the order they are registered
UserRoutes ==
    <<Route(GetMethods, "exact", PathRoot, "root"),
      Route({"POST"}, "exact", PathAuth, "auth"),
      Route({"POST"}, "exact", PathRoot, "auth_root"),
      Route({"POST"}, "path", PathRoot, "auth_any_path"),
      Route(GetMethods, "path", PathRoot, "get_any_path"),
      Route({"POST"}, "exact", PathProfile, "get_profile"),
      Route(GetMethods, "exact", PathPdfs, "list_pdfs")>>

RouteTables == [index |-> IndexRoutes, user |-> UserRoutes]

\* the path matches the route's pattern
PathMatches(route, path) ==
    IF route.kind = "exact" THEN path = route.prefix
    ELSE IF route.kind = "path" THEN startswith(path, route.prefix)
    ELSE LET rest == SubSeq(path, Len(route.prefix) + 1, Len(path))
         IN  /\ startswith(path, route.prefix)
             /\ rest # <<>>
             /\ \A i \in 1..Len(rest) : rest[i] # "/"

\* the router's choice: the handler of the first route matching path and
\* method, "405" when routes match the path but none the method, else "404"
dispatch(routes, method, path) ==
    LET full == {i \in 1..Len(routes) :
                    PathMatches(routes[i], path) /\ method \in routes[i].methods}
        partial == {i \in 1..Len(routes) : PathMatches(routes[i], path)}
    IN  IF full # {} THEN routes[CHOOSE i \in full : \A j \in full : i <= j].handler
        ELSE IF partial # {} THEN "405"
        ELSE "404"

RequestMethods == {"GET", "HEAD", "POST", "PUT", "DELETE"}

RequestPaths ==
    {PathRoot, PathAuth, PathProfile, PathPdfs, PathAdminPdfs,
     PathAdminPdfsItem \o <<"1">>,
     <<"/", "a", "d", "m", "i", "n", "/", "l", "o", "g", "i", "n">>,
     <<"/", "a", "d", "m", "i", "n", "/", "p", "a", "s", "s", "w", "o", "r", "d">>,
     <<"/", "a", "d", "m", "i", "n", "/", "u", "p", "l", "o", "a", "d", "-", "u", "r", "l">>,
     <<"/", "a", "d", "m", "i", "n", "/", "m", "e">>,
     <<"/", "l", "o", "g", "i", "n">>,
     <<"/", "p", "r", "o", "f", "i", "l", "e", "/">>}

\* the router takes a request of one of the two applications
Dispatch ==
    \E app \in DOMAIN RouteTables, method \in RequestMethods, path \in RequestPaths :
        LET handler == dispatch(RouteTables[app], method, path)
            status == IF handler = "404" THEN 404 ELSE IF handler = "405" THEN 405 ELSE 200
        IN  /\ resp' = [Response("dispatch", [app |-> app, method |-> method, path |-> path],
                                 status) EXCEPT !.handler = handler]
            /\ UNCHANGED <<inflight, env, admin_users, pdf_assets, auth_users, sessions, clock, issued,
                           saltCtr>>

(***************************************************************************)
(* Specification of the admin credential flows                             *)
(***************************************************************************)
Init ==
    /\ \E d \in Deployments : env = d[1] /\ admin_users = <<d[2]>>
    /\ pdf_assets = [rows |-> {}, seq |-> 0]
    /\ auth_users = {}
    /\ sessions = ProviderSessions
    /\ clock = 0
    /\ issued = <<>>
    /\ saltCtr = 1
    /\ resp = Response("none", [none |-> TRUE], 0)
    /\ inflight = <<>>

Next ==
    \/ Tick
    \/ ExternalRequireReset
    \/ AdminLogin
    \/ AdminUpdatePassword
    \/ AdminLogout
    \/ AdminMe

Spec == Init /\ [][Next]_vars

(***************************************************************************)
(* Specification of token lifetimes: tokens handed out by /admin/login     *)
(* under a clock of sub-second resolution                                  *)
(***************************************************************************)
InitClock ==
    /\ env = EnvAllSet
    /\ \E row \in {HashedRow, FlaggedRow, LegacyRow} : admin_users = <<row>>
    /\ pdf_assets = [rows |-> {}, seq |-> 0]
    /\ auth_users = {}
    /\ sessions = ProviderSessions
    /\ clock = 0
    /\ issued = <<>>
    /\ saltCtr = 1
    /\ resp = Response("none", [none |-> TRUE], 0)
    /\ inflight = <<>>

NextClock ==
    \/ TickFine
    \/ AdminLogin

SpecClock == InitClock /\ [][NextClock]_vars

(***************************************************************************)
(* Properties                                                              *)
(***************************************************************************)
History == {issued[i] : i \in 1..Len(issued)}

\* stored password values a token may be verified against
StoredCandidates ==
    {StoredValue(admin_users[i]) : i \in 1..Len(admin_users)}
        \cup {StoredValue(row) : row \in InitialAdminRows}
        \cup {h.hash : h \in History}
        \cup {<<>>, NoneStr}

TTLOf(purpose) == IF purpose = "session" THEN SESSION_TTL_SECONDS ELSE RESET_TTL_SECONDS

\* C1: a token generated for stored value h1 yields no payload when verified
\* against any other stored value h2; and after a successful /admin/password
\* every session token issued earlier fails verify_session_token against the
\* newly stored hash.
C1_HashBoundTokens ==
    /\ \A h \in History : \A h2 \in StoredCandidates :
          h2 # h.hash => _verify_token(h.token, h2, h.token.body.purpose) = NoPayload
    /\ (resp.op = "admin_password" /\ resp.status = 200) =>
          \A h \in History :
              (h.token # resp.cookie_value /\ h.token.body.purpose = "session") =>
                  verify_session_token(h.token, StoredValue(admin_users[resp.row])) = NoPayload

C1_Witness ==
    /\ resp.op = "admin_password" /\ resp.status = 200
    /\ \E h \in History :
          /\ h.token # resp.cookie_value
          /\ h.token.body.purpose = "session"
          /\ h.op = "admin_login"
          /\ h.token.body.exp >= NowSeconds

\* C2 (as claimed): the admin guard admits a request only if its admin_session
\* cookie verifies as a session token against the currently stored password
\* value of an active admin, and that stored value is a proper hash.
IsProperHash(value) == startswith(value, <<"$", "2">>) /\ Len(value) >= 4

C2_GuardChecksAdminSession ==
    (/\ resp.op = "admin_me" /\ resp.guard = "ok"
     /\ resp.req.admin_session.body.exp \notin 0..(NowSeconds - 1)) =>
        \E i \in 1..Len(admin_users) :
            /\ verify_session_token(resp.req.admin_session, StoredValue(admin_users[i])) # NoPayload
            /\ Active(admin_users[i])
            /\ IsProperHash(StoredValue(admin_users[i]))

\* C3 (as claimed): a guarded request that carries only the admin_session
\* cookie set by a successful /admin/login or /admin/password is admitted
\* while the token is unexpired and the password is unchanged.
C3_SessionCookieAdmitted ==
    (/\ resp.op = "admin_me"
     /\ resp.req.sb_access_token = ""
     /\ \E h \in History : \E i \in 1..Len(admin_users) :
           /\ h.token = resp.req.admin_session
           /\ h.token.body.purpose = "session"
           /\ h.token.body.exp >= NowSeconds
           /\ h.hash = StoredValue(admin_users[i])
           /\ admin_users[i].email = h.token.body.email
           /\ admin_users[i].active = "true")
    => resp.guard = "ok"

\* C5: in /admin/login, when the password matched and the record requires
\* rotation (a reset flag is truthy, a reset timestamp column is present but
\* empty, or the stored password is not a hash) the response carries a reset
\* token with requires_password_change true and sets no admin_session cookie;
\* a session cookie is set only when the password matched and none of these
\* conditions holds.
NeedsRotation(row) ==
    \/ \E key \in RESET_FLAGS : row.flags[key] \in {"true", "1", "'true'", "'1'", "'yes'", "'y'"}
    \/ \E key \in RESET_TIMESTAMP_FIELDS : row.stamps[key] \in {"null", "''"}
    \/ ~IsProperHash(StoredValue(row))

C5_RotationShortCircuitsSession ==
    resp.op = "admin_login" =>
        /\ (resp.matched /\ NeedsRotation(resp.seen)) =>
              /\ resp.status = 200
              /\ resp.requires_password_change = "true"
              /\ resp.reset_token.fmt = "ok"
              /\ resp.reset_token.body.purpose = "reset"
              /\ (resp.reset_token.body.exp >= NowSeconds =>
                    verify_reset_token(resp.reset_token, StoredValue(resp.seen)) # NoPayload)
              /\ resp.cookie = "none"
        /\ resp.cookie # "none" =>
              /\ resp.matched
              /\ ~NeedsRotation(resp.seen)
              /\ resp.requires_password_change = "false"
              /\ resp.reset_token = NoToken
              /\ resp.cookie_value.body.purpose = "session"

C5_Witness ==
    /\ resp.op = "admin_login"
    /\ resp.matched
    /\ resp.reset_token.fmt = "ok"
    /\ IsProperHash(StoredValue(resp.seen))

\* C6: a token made by create_reset_token never verifies with
\* verify_session_token, a token made by create_session_token never verifies
\* with verify_reset_token, whatever the stored value, and /admin/password
\* rejects a session token.
C6_PurposesNotInterchangeable ==
    /\ \A h \in History : \A v \in StoredCandidates :
          /\ h.token.body.purpose = "reset" => verify_session_token(h.token, v) = NoPayload
          /\ h.token.body.purpose = "session" => verify_reset_token(h.token, v) = NoPayload
    /\ (/\ resp.op = "admin_password"
        /\ \E h \in History : h.token = resp.req.reset_token /\ h.token.body.purpose = "session")
       => (resp.status = 400 /\ resp.cookie = "none")

C6_Witness ==
    /\ resp.op = "admin_password"
    /\ \E h \in History :
          /\ h.token = resp.req.reset_token
          /\ h.token.body.purpose = "session"
          /\ h.hash = StoredValue(admin_users[1])
          /\ h.token.body.exp >= NowSeconds
    /\ \E h \in History : h.token.body.purpose = "reset"

IssuedSeconds(h) == h.at \div TicksPerSec

Verifies(h) == _verify_token(h.token, h.hash, h.token.body.purpose) # NoPayload

\* C7 (as claimed): a token issued at time t verifies, with the correct stored
\* value, at time now only if now <= t + TTL (43200 s for a session token,
\* 600 s for a reset token).
C7_ExpiresAtIssuePlusTTL ==
    \A h \in History :
        Verifies(h) => clock <= h.at + TTLOf(h.token.body.purpose) * TicksPerSec

\* C7 (amended): expiry is decided on whole seconds: the token verifies at now
\* exactly when floor(now) <= floor(t) + TTL; so it verifies at every
\* now <= t + TTL and at no now >= t + TTL + 1 second.
C7_ExpiresOnWholeSeconds ==
    \A h \in History :
        LET ttl == TTLOf(h.token.body.purpose)
        IN  /\ Verifies(h) <=> NowSeconds <= IssuedSeconds(h) + ttl
            /\ clock <= h.at + ttl * TicksPerSec => Verifies(h)
            /\ clock >= h.at + (ttl + 1) * TicksPerSec => ~Verifies(h)

C7_Witness ==
    \E h \in History :
        /\ h.op = "admin_login"
        /\ clock >= h.at + (TTLOf(h.token.body.purpose) + 1) * TicksPerSec
        /\ ~Verifies(h)

(***************************************************************************)
(* Specification of the manifest and upload endpoints                      *)
(***************************************************************************)
SeedPdf ==
    [id |-> 1, group_key |-> <<"g">>, module |-> <<"m">>, lesson |-> NoneStr, path |-> <<"p">>,
     is_default |-> "true", score_min |-> {}, score_max |-> {}, active |-> "true"]

InitManifest ==
    /\ env \in {EnvAllSet, EnvNoServiceKey, EnvNoUrl}
    /\ \E row \in {HashedRow, InactiveRow, MixedCaseRow, UpperCaseRow} : admin_users = <<row>>
    /\ pdf_assets = [rows |-> {SeedPdf}, seq |-> 1]
    /\ auth_users = {}
    /\ sessions = ProviderSessions
    /\ clock = 0
    /\ issued = <<>>
    /\ saltCtr = 1
    /\ resp = Response("none", [none |-> TRUE], 0)
    /\ inflight = <<>>

NextManifest ==
    \/ AdminListPdfs
    \/ AdminCreatePdf
    \/ AdminUpdatePdf
    \/ AdminDeletePdf
    \/ AdminCreateUploadUrl
    \/ HandleAdminUpload

SpecManifest == InitManifest /\ [][NextManifest]_vars

\* C4: on the manifest and upload endpoints of routes/admin.py, and in
\* handle_admin_upload, a request the admin guard rejects causes no
\* pdf_assets read or write and no signed-upload-URL issuance: every such
\* call of a request comes after the guard's two calls, the guard having
\* admitted the request.
ManifestOps ==
    {"admin_list_pdfs", "admin_create_pdf", "admin_update_pdf", "admin_delete_pdf",
     "admin_create_upload_url", "handle_admin_upload"}

GuardRejects(cookies) ==
    \/ cookies.sb_access_token = ""
    \/ ~\E s \in sessions : s.token = cookies.sb_access_token
    \/ ~\E i \in 1..Len(admin_users) :
          /\ \E s \in sessions : s.token = cookies.sb_access_token /\ s.email = admin_users[i].email
          /\ admin_users[i].active = "true"

C4_GuardPrecedesManifestCalls ==
    resp.op \in ManifestOps =>
        /\ (resp.guard = "rejected" \/ GuardRejects(resp.req)) =>
              /\ \A i \in 1..Len(resp.calls) : resp.calls[i] \notin ManifestCalls
              /\ resp.status \in {401, 403, 500}
              /\ resp.data = {}
        /\ \A i \in 1..Len(resp.calls) :
              resp.calls[i] \in ManifestCalls =>
                  /\ resp.guard = "ok"
                  /\ i = 3
                  /\ SubSeq(resp.calls, 1, 2) = <<"auth.get_user", "admin_users.select">>

C4_Witness ==
    /\ resp.op \in ManifestOps
    /\ resp.guard = "rejected"
    /\ resp.req.sb_access_token = "tokU"
    /\ resp.status = 403
    /\ pdf_assets.rows # {}

(***************************************************************************)
(* Specification of /auth                                                  *)
(***************************************************************************)
EnvNoPrivateKey == [EnvAllSet EXCEPT !.AUTH_PRIVATE_KEY = FALSE]

ExistingUser ==
    [email |-> UserEmail, password |-> Pw1, first_name |-> FirstName, last_name |-> LastName,
     profile |-> "full"]

InitAuth ==
    /\ env \in {EnvAllSet, EnvNoServiceKey, EnvNoUrl, EnvNoPrivateKey}
    /\ admin_users = <<HashedRow>>
    /\ pdf_assets = [rows |-> {}, seq |-> 0]
    /\ auth_users = {ExistingUser}
    /\ sessions = {}
    /\ clock = 0
    /\ issued = <<>>
    /\ saltCtr = 1
    /\ resp = Response("none", [none |-> TRUE], 0)
    /\ inflight = <<>>

NextAuth == Auth

SpecAuth == InitAuth /\ [][NextAuth]_vars

\* number of times a call occurs among the calls of the last request
Count(call) == Cardinality({i \in 1..Len(resp.calls) : resp.calls[i] = call})

\* the payload of the request cannot be decrypted or parsed
Undecryptable(enc) ==
    \/ ~env.AUTH_PRIVATE_KEY
    \/ enc.kind # "cipher"
    \/ enc.key # "server"
    \/ enc.json # "dict"

\* C8 (as claimed): a signup whose email, ignoring case and surrounding
\* whitespace, is the email of a user of the provider's table when the request
\* arrives, is answered 409 and the sign-up call is not made.  Stated for
\* well-formed requests of a configured deployment.
C8_DuplicateSignupConflicts ==
    [][(/\ resp'.op = "auth"
        /\ AuthInputs(resp'.req).mode = ModeSignup
        /\ ~AuthInputs(resp'.req).rejected
        /\ build_supabase_public
        /\ NameGiven(AuthInputs(resp'.req).first_name)
        /\ NameGiven(AuthInputs(resp'.req).last_name)
        /\ \E u \in auth_users : str_lower(u.email) = AuthInputs(resp'.req).email)
       => /\ resp'.status = 409
          /\ \A i \in 1..Len(resp'.calls) : resp'.calls[i] # "auth.sign_up"]_vars

\* C9: a request whose enc is present but cannot be decrypted or parsed is
\* answered 400 with no external call made, whatever its mode and plaintext
\* fields; a request whose enc is absent (or the empty string) hands the
\* provider the body's own email and password, and on signup its names.
C9_UndecryptableRejectedAbsentFallsBack ==
    resp.op = "auth" =>
        /\ (EncPresent(resp.req.enc) /\ Undecryptable(resp.req.enc)) =>
              resp.status = 400 /\ resp.calls = <<>> /\ resp.data = {} /\ resp.cookie = "none"
        /\ ~EncPresent(resp.req.enc) =>
              \A c \in resp.data :
                  /\ c.email = str_lower(str_strip(OrElse(resp.req.email, <<>>)))
                  /\ c.password = OrElse(resp.req.password, <<>>)
                  /\ c.call = "sign_up" =>
                        /\ c.first_name = str_strip(resp.req.first_name)
                        /\ c.last_name = str_strip(resp.req.last_name)

C9_Witness ==
    /\ resp.op = "auth"
    /\ resp.req.enc = EncGarbage
    /\ Truthy(resp.req.email)
    /\ str_strip(str_lower(resp.req.mode)) = ModeLogin
    /\ resp.status = 400

\* C10: /auth dispatches on the lowercased, trimmed mode: a mode other than
\* login and signup is answered 400 with neither the sign-in nor the sign-up
\* call made; a login never makes the sign-up call and makes the sign-in call
\* exactly once when the request gets as far as the provider (payload accepted,
\* provider configured) and not at all otherwise; a signup never makes the
\* sign-in call.
C10_ModeDispatch ==
    resp.op = "auth" =>
        LET mode == str_strip(str_lower(resp.req.mode))
            accepted == ~(EncPresent(resp.req.enc) /\ Undecryptable(resp.req.enc))
        IN  /\ mode \notin {ModeLogin, ModeSignup} =>
                  /\ resp.status = 400
                  /\ Count("auth.sign_in_with_password") = 0
                  /\ Count("auth.sign_up") = 0
            /\ mode = ModeLogin =>
                  /\ Count("auth.sign_up") = 0
                  /\ Count("auth.sign_in_with_password") =
                        (IF accepted /\ build_supabase_public THEN 1 ELSE 0)
            /\ mode = ModeSignup =>
                  /\ Count("auth.sign_in_with_password") = 0
                  /\ Count("auth.sign_up") <= 1

C10_Witness ==
    /\ resp.op = "auth"
    /\ resp.req.mode = <<" ", "L", "o", "G", "i", "n", "\t">>
    /\ resp.calls # <<>>
    /\ resp.calls[1] = "auth.sign_in_with_password"
    /\ resp.cookie = "sb_access_token"

\* C18 (as claimed): the admin guard compares emails lowercased and trimmed,
\* so it turns a session away as not authorized (403) only when no active
\* admin_users row has the session's email up to case and surrounding space.
C18_GuardComparesNormalizedEmails ==
    (resp.op \in ManifestOps /\ resp.status = 403) =>
        ~\E i \in 1..Len(admin_users), s \in sessions :
            /\ s.token = resp.req.sb_access_token
            /\ normalize_email(admin_users[i].email) = normalize_email(s.email)
            /\ admin_users[i].active = "true"

\* C17 (as claimed): whatever its external calls and configuration lookups
\* do, a handler ends by returning a response or raising an HTTPException; no
\* other exception leaves it.
C17_NoUnhandledFault == ~resp.escaped

(***************************************************************************)
(* Specification of /profile                                               *)
(***************************************************************************)
InitProfile ==
    /\ env \in {EnvAllSet, EnvNoServiceKey, EnvNoUrl, EnvNoAESGCM}
    /\ admin_users = <<HashedRow>>
    /\ pdf_assets = [rows |-> {}, seq |-> 0]
    /\ auth_users = {ExistingUser}
    /\ sessions = {}
    /\ clock = 0
    /\ issued = <<>>
    /\ saltCtr = 1
    /\ resp = Response("none", [none |-> TRUE], 0)
    /\ inflight = <<>>

NextProfile == Login \/ GetProfile

SpecProfile == InitProfile /\ [][NextProfile]_vars

\* the provider was asked about a token it holds no session for, or no token
\* was sent
Unaccepted ==
    \/ resp.req.sb_access_token = ""
    \/ /\ Count("auth.get_user") > 0
       /\ \A s \in sessions : s.token # resp.req.sb_access_token

\* C12 (as claimed): a /profile request without the sb_access_token cookie,
\* or with a token the provider does not accept (it returns no user or
\* raises), is answered 401 and no profile row is fetched.
C12_UnacceptedTokenIs401 ==
    (resp.op = "get_profile" /\ Unaccepted) =>
        /\ resp.status = 401
        /\ Count("profiles.select") = 0

PII == {"first_name", "last_name", "name", "email"}

\* C13 (as claimed): no success response of /auth or /profile carries
\* first_name, last_name, name or email as a plaintext JSON field.
C13_NoPlaintextProfile ==
    (resp.op \in {"auth", "get_profile"} /\ resp.status = 200) => resp.plain \cap PII = {}

\* the return keys that decode to 16, 24 or 32 bytes
GoodKeys == {Key16, Key24, Key32, KeyNoisy}

\* C14: a block is produced only with the crypto library present and a return
\* key that decodes to 16, 24 or 32 bytes, and the encryption never raises:
\* /profile answers 400 whenever a session was found and no block was made,
\* and each of its success responses carries enc_profile; a login response
\* carries enc_profile only under the same conditions.
C14_NoBlockIsAnError ==
    /\ resp.op = "get_profile" =>
            /\ resp.status = 200 =>
                    resp.enc_profile /\ env.AESGCM /\ resp.req.rtk \in GoodKeys
            /\ (resp.email # NoneStr /\ ~(env.AESGCM /\ resp.req.rtk \in GoodKeys)) =>
                    resp.status = 400 /\ ~resp.enc_profile
            /\ ~resp.escaped
    /\ resp.op = "auth" =>
            /\ resp.enc_profile =>
                    env.AESGCM /\ AuthInputs(resp.req).return_key_b64 \in GoodKeys
            /\ ~resp.escaped

C14_Witness ==
    /\ resp.op = "get_profile"
    /\ resp.email # NoneStr
    /\ resp.req.rtk = KeyStray
    /\ resp.status = 400

\* C15 (as claimed): a signup whose first_name or last_name is missing or
\* blank, for an email that is not registered, is answered 400 and the
\* sign-up call is not made.
C15_MissingNamesAre400 ==
    LET in == AuthInputs(resp.req)
    IN  (/\ resp.op = "auth"
         /\ ~in.rejected
         /\ in.mode = ModeSignup
         /\ build_supabase_public
         /\ ~NameGiven(in.first_name) \/ ~NameGiven(in.last_name)
         /\ UsersByEmail(in.email) = {}) =>
            /\ resp.status = 400
            /\ Count("auth.sign_up") = 0

\* C16 (as claimed): when the sign-in or sign-up call raises unexpectedly the
\* response is 500 with a generic message, and the provider's error text is
\* not in the response detail.
C16_ProviderFailureIsGeneric500 ==
    (resp.op = "auth" /\ resp.raised \in {"auth.sign_in_with_password", "auth.sign_up"}) =>
        /\ resp.status = 500
        /\ resp.detail # "provider"

(***************************************************************************)
(* Specification of routing                                                *)
(***************************************************************************)
InitRoutes ==
    /\ env = EnvAllSet
    /\ admin_users = <<HashedRow>>
    /\ pdf_assets = [rows |-> {}, seq |-> 0]
    /\ auth_users = {}
    /\ sessions = {}
    /\ clock = 0
    /\ issued = <<>>
    /\ saltCtr = 1
    /\ resp = Response("none", [none |-> TRUE], 0)
    /\ inflight = <<>>

NextRoutes == Dispatch

SpecRoutes == InitRoutes /\ [][NextRoutes]_vars

CatchAlls == {"auth_any_path", "get_any_path"}

\* the handler registered for exactly this method and path, if there is one
Canonical(routes, method, path) ==
    {routes[i].handler : i \in {j \in 1..Len(routes) :
        /\ routes[j].handler \notin CatchAlls
        /\ PathMatches(routes[j], path)
        /\ method \in routes[j].methods}}

\* C11 (as claimed): each canonical endpoint is dispatched to its own handler:
\* POST /profile to get_profile, GET /pdfs to list_pdfs, GET and POST
\* /admin/pdfs to the admin manifest handlers; a catch-all receives only
\* requests that have no canonical handler.
C11_CanonicalHandlersReached ==
    resp.op = "dispatch" =>
        LET routes == RouteTables[resp.req.app]
            own == Canonical(routes, resp.req.method, resp.req.path)
        IN  /\ own # {} => resp.handler \in own
            /\ resp.handler \in CatchAlls => own = {}

(***************************************************************************)
(* Specification of the manifest listing                                   *)
(***************************************************************************)
PdfRow(id, group_key, module, lesson, path, is_default, score_min, score_max, active) ==
    [id |-> id, group_key |-> group_key, module |-> module, lesson |-> lesson, path |-> path,
     is_default |-> is_default, score_min |-> score_min, score_max |-> score_max,
     active |-> active]

UpTo50 == PdfRow(1, <<"g">>, <<"m">>, <<"l", "1">>, <<"b">>, "true", {}, {50}, "true")
Unbounded == PdfRow(2, <<"g">>, <<"m">>, NoneStr, <<"a">>, "false", {}, {}, "true")
From51 == PdfRow(3, <<"g">>, <<"m">>, <<"l", "1">>, <<"a">>, "false", {51}, {}, "true")
Retired == PdfRow(4, <<"g">>, <<"m">>, <<"l", "2">>, <<"c">>, "true", {}, {}, "false")
Other == PdfRow(5, <<"h">>, <<"n">>, <<"l", "1">>, <<"d">>, "true", {0}, {50}, "true")

Manifests ==
    {{UpTo50, Unbounded}, {UpTo50, From51, Retired}, {Unbounded, Other},
     {UpTo50, Unbounded, From51, Retired, Other}}

InitContent ==
    /\ env \in {EnvAllSet, EnvNoServiceKey}
    /\ admin_users = <<HashedRow>>
    /\ \E rows \in Manifests : pdf_assets = [rows |-> rows, seq |-> 5]
    /\ auth_users = {}
    /\ sessions = {}
    /\ clock = 0
    /\ issued = <<>>
    /\ saltCtr = 1
    /\ resp = Response("none", [none |-> TRUE], 0)
    /\ inflight = <<>>

NextContent == ListPdfsByModule \/ ListPdfsByGroup

SpecContent == InitContent /\ [][NextContent]_vars

ContentOps == {"list_pdfs_by_module", "list_pdfs_by_group"}

\* the rows the claim says a request is to select
Matching(req, op) ==
    {row \in pdf_assets.rows :
        /\ row.active = "true"
        /\ IF op = "list_pdfs_by_module"
           THEN /\ row.module = str_strip(req.key)
                /\ str_strip(OrElse(req.lesson, <<>>)) # <<>> =>
                       row.lesson = str_strip(req.lesson)
           ELSE row.group_key = req.key
        /\ IF req.score = {} THEN row.is_default = "true"
           ELSE \A s \in req.score :
                    /\ row.score_min = {} \/ \A lo \in row.score_min : lo <= s
                    /\ row.score_max = {} \/ \A hi \in row.score_max : s <= hi}

\* the query was sent
Queried == resp.op \in ContentOps /\ Count("pdf_assets.select") > 0

\* C19: the query selects only rows that are active, match the module or
\* group (and the lesson filter, if given) and either are is_default when no
\* score is given or have the score inside their null-tolerant range; it
\* selects all of them, or as many of them as the limit allows.
C19_QuerySelectsMatchingRows ==
    Queried =>
        LET matching == Matching(resp.req, resp.op)
            limit == clamp_limit(resp.req.limit)
        IN  /\ resp.selected \subseteq matching
            /\ Cardinality(resp.selected) =
                   (IF Cardinality(matching) < limit THEN Cardinality(matching) ELSE limit)

C19_Witness ==
    /\ Queried
    /\ resp.req.score = {51}
    /\ resp.req.key = <<" ", "m">>
    /\ resp.req.lesson = NoneStr
    /\ UpTo50 \in pdf_assets.rows
    /\ resp.selected = {Unbounded, From51}

\* C20 (as claimed): in the module-based listing, when the query finds rows,
\* the service-role key is set and the storage provider signs, the items are
\* those rows, each with a signed URL.
C20_ModuleListingReturnsSignedItems ==
    (/\ resp.op = "list_pdfs_by_module"
     /\ Queried
     /\ resp.req.storage_ok
     /\ resp.selected # {}) =>
        {item.id : item \in resp.data} = {row.id : row \in resp.selected}

(***************************************************************************)
(* Specification of email normalization                                    *)
(***************************************************************************)
MaxLen == 3

EmailChars == {"a", "A", "@", " ", "\t"}

RECURSIVE StringsUpTo(_)
StringsUpTo(n) ==
    IF n = 0 THEN {<<>>}
    ELSE LET shorter == StringsUpTo(n - 1)
         IN  shorter \cup {Append(s, c) : s \in {t \in shorter : Len(t) = n - 1},
                                          c \in EmailChars}

\* what a caller hands to normalize_email: None or a string
EmailInputs == StringsUpTo(MaxLen) \cup {NoneStr}

\* a caller normalizes a value
Normalize ==
    \E x \in EmailInputs :
        /\ resp' = [Response("normalize_email", [email |-> x], 200) EXCEPT
                       !.email = normalize_email(x)]
        /\ UNCHANGED <<inflight, env, admin_users, pdf_assets, auth_users, sessions, clock, issued, saltCtr>>

\* a caller normalizes what an earlier call returned
Renormalize ==
    /\ resp.op = "normalize_email"
    /\ resp' = [Response("normalize_email", [email |-> resp.email], 200) EXCEPT
                   !.email = normalize_email(resp.email)]
    /\ UNCHANGED <<inflight, env, admin_users, pdf_assets, auth_users, sessions, clock, issued, saltCtr>>

InitNormalize ==
    /\ env = EnvAllSet
    /\ admin_users = <<HashedRow>>
    /\ pdf_assets = [rows |-> {}, seq |-> 0]
    /\ auth_users = {}
    /\ sessions = {}
    /\ clock = 0
    /\ issued = <<>>
    /\ saltCtr = 1
    /\ resp = Response("none", [none |-> TRUE], 0)
    /\ inflight = <<>>

NextNormalize == Normalize \/ Renormalize

SpecNormalize == InitNormalize /\ [][NextNormalize]_vars

\* the same letter, in whichever case
SameLetter(c, d) ==
    c = d \/ \E i \in 1..Len(Uppers) : {c, d} = {Uppers[i], Lowers[i]}

\* positions of the characters of s that are not whitespace
Inked(s) == {i \in 1..Len(s) : s[i] \notin Whitespace}

First(s) == CHOOSE i \in Inked(s) : \A j \in Inked(s) : i <= j
Last(s) == CHOOSE i \in Inked(s) : \A j \in Inked(s) : j <= i

\* x and y differ only in letter case and in leading or trailing whitespace
DifferOnlyInCaseAndMargin(x, y) ==
    IF Inked(x) = {} \/ Inked(y) = {} THEN Inked(x) = {} /\ Inked(y) = {}
    ELSE /\ Last(x) - First(x) = Last(y) - First(y)
         /\ \A k \in 0..(Last(x) - First(x)) : SameLetter(x[First(x) + k], y[First(y) + k])

\* C21: normalize_email is idempotent, and two strings that differ only in
\* letter case or in leading and trailing whitespace normalize to the same
\* value.
C21_NormalizeIdempotentAndInsensitive ==
    resp.op = "normalize_email" =>
        /\ normalize_email(resp.email) = resp.email
        /\ \A y \in StringsUpTo(MaxLen) :
               (resp.req.email # NoneStr /\ DifferOnlyInCaseAndMargin(resp.req.email, y)) =>
                   normalize_email(y) = resp.email

C21_Witness ==
    /\ resp.op = "normalize_email"
    /\ resp.req.email = <<" ", "A", "@">>
    /\ resp.email = <<"a", "@">>

(***************************************************************************)
(* Properties of the payload decryption                                    *)
(***************************************************************************)
\* the payload is the encryption, under the server's public key, of a JSON
\* object, and the server can load its private key
Decryptable(enc) ==
    /\ enc.kind = "cipher"
    /\ enc.key = "server"
    /\ enc.json = "dict"
    /\ env.AESGCM
    /\ env.AUTH_PRIVATE_KEY

ExternalDeactivate ==
    /\ \E i \in 1..Len(admin_users), value \in {"false", "null"} :
          /\ admin_users[i].active = "true"
          /\ admin_users' = [admin_users EXCEPT ![i].active = value]
    /\ resp' = Response("none", [none |-> TRUE], 0)
    /\ UNCHANGED <<inflight, env, pdf_assets, auth_users, sessions, clock, issued, saltCtr>>

InitLifecycle ==
    /\ env = EnvAllSet
    /\ \E row \in {HashedRow, RotatableRow, FlaggedRow, StaleStampRow, LegacyRow, InactiveRow} :
          admin_users = <<row>>
    /\ pdf_assets = [rows |-> {}, seq |-> 0]
    /\ auth_users = {}
    /\ sessions = ProviderSessions
    /\ clock = 0
    /\ issued = <<>>
    /\ saltCtr = 1
    /\ resp = Response("none", [none |-> TRUE], 0)
    /\ inflight = <<>>

NextLifecycle ==
    \/ ExternalDeactivate
    \/ AdminLogin
    \/ AdminUpdatePassword
    \/ AdminLogout
    \/ AdminMe

SpecLifecycle == InitLifecycle /\ [][NextLifecycle]_vars

\* the active field is present and not truthy
Inactive(row) == row.active # "absent" /\ row.active \notin {"true", "1", "'true'", "'yes'"}

\* C24: an admin whose record is inactive is denied with 403 and obtains no
\* credential: /admin/login that found the record sets no session cookie and
\* returns no reset token, /admin/password that found it writes nothing, and
\* the guard that looked the record up admits nothing: it answers 403, or 500
\* when the lookup failed.
C24_InactiveAdminDenied ==
    /\ (resp.op = "admin_login" /\ resp.row # 0 /\ Inactive(resp.seen)) =>
           /\ resp.status = 403
           /\ resp.cookie = "none"
           /\ resp.reset_token = NoToken
    /\ (resp.op = "admin_password" /\ resp.row # 0 /\ Inactive(resp.seen)) =>
           /\ resp.status = 403
           /\ resp.cookie = "none"
           /\ Count("admin_users.update") = 0
    /\ (/\ resp.op = "admin_me"
        /\ Count("admin_users.select") > 0
        /\ \A i \in 1..Len(admin_users) : Inactive(admin_users[i])) =>
           \* 500 is the answer when the lookup itself failed
           resp.status \in {403, 500} /\ resp.guard = "rejected"

C24_Witness ==
    /\ resp.op = "admin_password"
    /\ resp.row # 0
    /\ Inactive(resp.seen)
    /\ verify_reset_token(resp.req.reset_token, StoredValue(resp.seen)) # NoPayload
    /\ resp.status = 403

(***************************************************************************)
(* index.py: the entrypoint app's ADMIN_EMAILS guard and its pdf_assets    *)
(* handlers                                                                *)
(***************************************************************************)
\* s.split(sep) for a one-character separator
RECURSIVE str_split(_, _)
str_split(s, sep) ==
    IF \E i \in 1..Len(s) : s[i] = sep
    THEN LET i == CHOOSE k \in 1..Len(s) : s[k] = sep /\ \A j \in 1..(k - 1) : s[j] # sep
         IN  <<SubSeq(s, 1, i - 1)>> \o str_split(SubSeq(s, i + 1, Len(s)), sep)
    ELSE <<s>>

\* {e.strip().lower() for e in allowed_raw.split(",") if e.strip()}
allowed_emails ==
    LET allowed_raw == OrElse(env.ADMIN_EMAILS, <<>>)
        entries == str_split(allowed_raw, ",")
    IN  {str_lower(str_strip(entries[i])) :
            i \in {j \in 1..Len(entries) : str_strip(entries[j]) # <<>>}}

\* a guard that checks the session's email only when a list is configured
_require_admin_email_open_when_unset(cookies, providerRaises) ==
    LET token == cookies.sb_access_token
        email == get_user(token, providerRaises)
        out(status, calls) == [status |-> status, email |-> NoneStr, calls |-> calls]
    IN  IF token = "" THEN out(401, <<>>)
        ELSE IF ~build_supabase_public THEN out(401, <<>>)
        ELSE IF providerRaises THEN out(401, <<"auth.get_user">>)
        ELSE IF allowed_emails # {} /\ (~Truthy(email) \/ str_lower(email) \notin allowed_emails)
        THEN out(403, <<"auth.get_user">>)
        ELSE [status |-> 200, email |-> email, calls |-> <<"auth.get_user">>]

\* _require_admin_email(request): status 200 and the session's email, or the
\* HTTP error
_require_admin_email(cookies, providerRaises) ==
    LET token == cookies.sb_access_token
        email == get_user(token, providerRaises)
        out(status, calls) == [status |-> status, email |-> NoneStr, calls |-> calls]
    IN  IF allowed_emails = {} THEN out(403, <<>>)
        ELSE IF token = "" THEN out(401, <<>>)
        ELSE IF ~build_supabase_public THEN out(401, <<>>)
        ELSE IF providerRaises THEN out(401, <<"auth.get_user">>)
        ELSE IF ~Truthy(email) \/ str_lower(email) \notin allowed_emails
        THEN out(403, <<"auth.get_user">>)
        ELSE [status |-> 200, email |-> email, calls |-> <<"auth.get_user">>]

MixedCaseEmail == <<"A", "@", "x">>

\* values of ADMIN_EMAILS: unset, empty, blank entries only, and two entries
\* with margins and capitals
AdminEmailLists ==
    {NoneStr, <<>>, <<" ", ",", " ">>, <<" ", "A", "@", "X", " ", ",", "b", "@", "x">>}

\* request bodies of the entrypoint's create and update handlers
EntrypointCreateBodies == {body \in PdfCreateBodies : body.is_default = "false"}
EntrypointUpdateBodies == {NoUpdate, [NoUpdate EXCEPT !.active = "false"]}

\* what can fail while a request is handled: nothing, the provider's
\* get_user, or the pdf_assets call
EntrypointFaults == {"none", "provider", "table"}

EntrypointSessions ==
    ProviderSessions \cup {[token |-> "tokM", email |-> MixedCaseEmail]}

EntrypointCookies ==
    [sb_access_token : {"", "tokU", "tokM", "tokZ"}, admin_session : {NoToken}]

\* the response of one of index.py's handlers, the body after the guard being
\* that of the router's handler of the same name
Entrypoint(res) == [res EXCEPT !.out.handler = "index"]

\* GET /admin/pdfs of index.py
IndexAdminListPdfs ==
    \E cookies \in EntrypointCookies, fault \in EntrypointFaults,
       group \in {NoneStr, <<"g">>} :
        LET res == Entrypoint(admin_list_pdfs(cookies, _require_admin_email(cookies, fault = "provider"),
                                              group, fault = "table"))
        IN  /\ resp' = res.out
            /\ pdf_assets' = res.table
            /\ UNCHANGED <<inflight, env, admin_users, auth_users, sessions, clock, issued, saltCtr>>

\* POST /admin/pdfs of index.py
IndexAdminCreatePdf ==
    \E cookies \in EntrypointCookies, fault \in EntrypointFaults,
       body \in EntrypointCreateBodies :
        LET res == Entrypoint(admin_create_pdf(cookies, _require_admin_email(cookies, fault = "provider"),
                                               body, fault = "table"))
        IN  /\ res.table.seq <= MaxPdfRows
            /\ resp' = res.out
            /\ pdf_assets' = res.table
            /\ UNCHANGED <<inflight, env, admin_users, auth_users, sessions, clock, issued, saltCtr>>

\* PUT /admin/pdfs/{item_id} of index.py
IndexAdminUpdatePdf ==
    \E cookies \in EntrypointCookies, fault \in EntrypointFaults,
       item_id \in 1..MaxPdfRows, body \in EntrypointUpdateBodies :
        LET res == Entrypoint(admin_update_pdf(cookies, _require_admin_email(cookies, fault = "provider"),
                                               item_id, body, fault = "table"))
        IN  /\ resp' = res.out
            /\ pdf_assets' = res.table
            /\ UNCHANGED <<inflight, env, admin_users, auth_users, sessions, clock, issued, saltCtr>>

\* DELETE /admin/pdfs/{item_id} of index.py
IndexAdminDeletePdf ==
    \E cookies \in EntrypointCookies, fault \in EntrypointFaults,
       item_id \in 1..MaxPdfRows :
        LET res == Entrypoint(admin_delete_pdf(cookies, _require_admin_email(cookies, fault = "provider"),
                                               item_id, fault = "table"))
        IN  /\ resp' = res.out
            /\ pdf_assets' = res.table
            /\ UNCHANGED <<inflight, env, admin_users, auth_users, sessions, clock, issued, saltCtr>>

InitEntrypoint ==
    /\ \/ \E raw \in AdminEmailLists : env = [EnvAllSet EXCEPT !.ADMIN_EMAILS = raw]
       \/ env = [EnvNoUrl EXCEPT !.ADMIN_EMAILS = <<"u", "@", "x">>]
    /\ admin_users = <<HashedRow>>
    /\ pdf_assets = [rows |-> {SeedPdf}, seq |-> 1]
    /\ auth_users = {}
    /\ sessions = EntrypointSessions
    /\ clock = 0
    /\ issued = <<>>
    /\ saltCtr = 1
    /\ resp = Response("none", [none |-> TRUE], 0)
    /\ inflight = <<>>

NextEntrypoint ==
    \/ IndexAdminListPdfs
    \/ IndexAdminCreatePdf
    \/ IndexAdminUpdatePdf
    \/ IndexAdminDeletePdf

SpecEntrypoint == InitEntrypoint /\ [][NextEntrypoint]_vars

\* every entry of ADMIN_EMAILS is blank, or the variable is unset
NoListedEmail ==
    \/ env.ADMIN_EMAILS = NoneStr
    \/ \A i \in 1..Len(env.ADMIN_EMAILS) : env.ADMIN_EMAILS[i] \in Whitespace \cup {","}

\* the entry is the email up to case and the entry's surrounding whitespace
Lists(entry, email) ==
    /\ str_strip(entry) # <<>>
    /\ str_lower(str_strip(entry)) = str_lower(email)

PdfAssetsCalls ==
    {i \in 1..Len(resp.calls) :
        resp.calls[i] \in {"pdf_assets.select", "pdf_assets.insert",
                           "pdf_assets.update", "pdf_assets.delete"}}

\* C25: in index.py, with ADMIN_EMAILS unset or holding no non-blank entry
\* every guarded handler answers 403 and makes no pdf_assets call; with a
\* list set, a request passes the guard only if the provider resolves its
\* session cookie to a user whose email is one of the entries, up to case
\* and the entries' surrounding whitespace.
C25_DenyByDefault ==
    resp.handler = "index" =>
        /\ NoListedEmail => resp.status = 403 /\ PdfAssetsCalls = {}
        /\ resp.guard = "ok" =>
              \E s \in sessions :
                  /\ s.token = resp.req.sb_access_token
                  /\ \E i \in 1..Len(str_split(env.ADMIN_EMAILS, ",")) :
                        Lists(str_split(env.ADMIN_EMAILS, ",")[i], s.email)
        /\ resp.guard # "ok" => PdfAssetsCalls = {}

\* a session whose email differs from its entry in case and margin is admitted
\* and the table is read
C25_Witness ==
    /\ resp.handler = "index"
    /\ resp.guard = "ok"
    /\ resp.status = 200
    /\ resp.req.sb_access_token = "tokM"
    /\ PdfAssetsCalls # {}
    /\ <<"A", "@", "x">> \notin {str_split(env.ADMIN_EMAILS, ",")[i] :
                                    i \in 1..Len(str_split(env.ADMIN_EMAILS, ","))}

\* C26 (as claimed): when the enc payload of an /auth request decrypts, the
\* email, password, first_name and last_name of the provider call are those
\* of the decrypted payload alone: a field the payload omits or leaves empty
\* is empty in the call, whatever the plaintext body holds.
C26_OnlyDecryptedFields ==
    (resp.op = "auth" /\ Decryptable(resp.req.enc)) =>
        LET d == resp.req.enc.fields
        IN  \A call \in resp.data :
                /\ call.email = normalize_email(OrElse(d.email, <<>>))
                /\ call.password = OrElse(d.password, <<>>)
                /\ call.call = "sign_up" =>
                      /\ call.first_name = str_strip(d.first_name)
                      /\ call.last_name = str_strip(d.last_name)

\* reset tokens that a /admin/password request answered 200 has carried
SpentResetTokens == {h.by : h \in {g \in History : g.op = "admin_password"}}

\* what /admin/password would answer now to a request carrying the token
Replays(token) ==
    {admin_update_password([reset_token |-> token, new_password |-> new_password],
                           r, outcome, Len(issued) + 1) :
        new_password \in NewPasswords,
        outcome \in {"ok", "fetch_raises", "raise", "raise_after"},
        r \in 0..Len(admin_users)}

\* C27: a reset token is single-use across sequential requests: once one
\* /admin/password request carrying token t has succeeded, every later
\* /admin/password request carrying t is rejected with 400 (403 once the
\* record has been disabled, the check that comes first) and leaves the
\* stored password hash unchanged.
C27_ResetTokenSingleUse ==
    \A t \in SpentResetTokens :
        \A res \in Replays(t) :
            /\ res.out.status = 400 \/ (res.out.status = 403 /\ Inactive(res.out.seen))
            /\ res.table = admin_users
            /\ ~res.salted

\* a request carrying a spent token has been answered 400 with the record
\* still active, after a rotation that the history holds
C27_Witness ==
    /\ resp.op = "admin_password"
    /\ resp.status = 400
    /\ resp.req.reset_token \in SpentResetTokens
    /\ resp.row # 0
    /\ ~Inactive(resp.seen)
    /\ Len(str_strip(resp.req.new_password)) >= 8

(***************************************************************************)
(* routes/admin.py: POST /admin/password handled by concurrent instances.  *)
(* The handler holds no lock and its update is not conditional on the      *)
(* value it read, so instances of the service interleave at their calls of *)
(* the admin_users table: the read (fetch_admin_user) and the write        *)
(* (update_admin_user).                                                    *)
(***************************************************************************)
MaxInflight == 2

\* a request past its checks, waiting to write
Waiting(body, seen, hash) ==
    [body |-> body, pc |-> "fetched", seen |-> seen, hash |-> hash, status |-> 0,
     session |-> NoToken, wrote |-> FALSE]

\* a request that has been answered
Answered(req, status, session, wrote) ==
    [req EXCEPT !.pc = "done", !.status = status, !.session = session, !.wrote = wrote]

\* the handler from its start to new_hash = hash_password(new_password):
\* everything it decides on the row that fetch_admin_user returned
PasswordBegin ==
    \E i \in 1..Len(issued), new_password \in NewPasswords :
        LET body == [reset_token |-> issued[i].token, new_password |-> new_password]
            rows == fetch_admin_user(decode_reset_payload(body.reset_token).email, FALSE)
        IN  \E r \in (IF rows = {} THEN {0} ELSE rows) :
                LET res == admin_update_password(body, r, "ok", Len(issued) + 1)
                    seen == IF r = 0 THEN NoRow ELSE admin_users[r]
                    req == Waiting(body, seen, res.hash)
                IN  /\ Len(inflight) < MaxInflight
                    /\ issued[i].token.body.purpose = "reset"
                    /\ inflight' = Append(inflight,
                                          IF res.salted THEN req
                                          ELSE Answered(req, res.out.status, NoToken, FALSE))
                    /\ resp' = IF res.salted THEN resp ELSE res.out
                    /\ saltCtr' = IF res.salted THEN saltCtr + 1 ELSE saltCtr
                    /\ UNCHANGED <<env, admin_users, pdf_assets, auth_users, sessions, clock,
                                   issued>>

\* the handler from update_admin_user to its response
PasswordFinish ==
    \E p \in 1..Len(inflight), outcome \in {"ok", "raise"} :
        LET req == inflight[p]
            email == decode_reset_payload(req.body.reset_token).email
            canonical_email == OrElse(Get(req.seen.email), email)
            update_payload == build_password_update_payload(req.seen, req.hash)
            updated == update_admin_user(email, outcome)
            session_token == create_session_token(canonical_email, req.hash, Len(issued) + 1)
            out == [Response("admin_password", req.body, IF updated THEN 200 ELSE 500) EXCEPT
                       !.seen = req.seen,
                       !.calls = <<"admin_users.select", "admin_users.update">>,
                       !.email = IF updated THEN canonical_email ELSE NoneStr,
                       !.cookie = IF updated THEN "admin_session" ELSE "none",
                       !.max_age = IF updated THEN SESSION_TTL_SECONDS ELSE -1,
                       !.cookie_value = IF updated THEN session_token ELSE NoToken]
        IN  /\ req.pc = "fetched"
            /\ admin_users' = IF UpdateApplied(email, outcome)
                              THEN UpdatedTable(email, update_payload) ELSE admin_users
            /\ inflight' = [inflight EXCEPT
                               ![p] = Answered(req, out.status, out.cookie_value,
                                               UpdateApplied(email, outcome))]
            /\ resp' = out
            /\ issued' = Issue(out, req.hash)
            /\ UNCHANGED <<env, pdf_assets, auth_users, sessions, clock, saltCtr>>

InitConcurrent ==
    /\ env = EnvAllSet
    /\ \E row \in {FlaggedRow, StaleStampRow, LegacyRow, HashedRow} : admin_users = <<row>>
    /\ pdf_assets = [rows |-> {}, seq |-> 0]
    /\ auth_users = {}
    /\ sessions = ProviderSessions
    /\ clock = 0
    /\ issued = <<>>
    /\ saltCtr = 1
    /\ resp = Response("none", [none |-> TRUE], 0)
    /\ inflight = <<>>

NextConcurrent ==
    \/ AdminLogin
    \/ PasswordBegin
    \/ PasswordFinish

SpecConcurrent == InitConcurrent /\ [][NextConcurrent]_vars

\* C28 (as claimed): whatever the interleaving of two /admin/password
\* requests carrying the same valid reset token, at most one of them updates
\* the stored password hash, and every session token of a success response
\* verifies against the hash stored once both have completed.
C28_AtMostOneConcurrentUpdate ==
    \A p, q \in 1..Len(inflight) :
        (/\ p < q
         /\ inflight[p].pc = "done"
         /\ inflight[q].pc = "done"
         /\ inflight[p].body.reset_token = inflight[q].body.reset_token) =>
            /\ ~(inflight[p].wrote /\ inflight[q].wrote)
            /\ \A k \in {p, q} :
                  inflight[k].status = 200 =>
                      \E i \in 1..Len(admin_users) :
                          verify_session_token(inflight[k].session,
                                               StoredValue(admin_users[i])) # NoPayload

\* session tokens of the history that verify against what is stored now
LiveSessions ==
    {h \in History :
        /\ h.token.body.purpose = "session"
        /\ \E i \in 1..Len(admin_users) :
              verify_session_token(h.token, StoredValue(admin_users[i])) # NoPayload}

\* a step that handles /admin/logout
LogoutStep == resp'.op = "admin_logout" /\ resp' # resp

\* C29: /admin/logout changes no server-side state and makes no external
\* call: it only sets the admin_session cookie to the empty value with
\* max_age 0, so the session tokens that verified before it verify after it;
\* and at any time a session token of the history verifies against the
\* stored value if that is the hash it was issued for and it has not expired.
C29_LogoutIsStateless ==
    /\ [][LogoutStep =>
            /\ UNCHANGED <<env, admin_users, pdf_assets, auth_users, sessions, clock, issued,
                           saltCtr, inflight>>
            /\ resp'.calls = <<>>
            /\ resp'.status = 200
            /\ resp'.cookie = "admin_session"
            /\ resp'.cookie_value = EmptyToken
            /\ resp'.max_age = 0
            /\ LiveSessions' = LiveSessions]_vars
    /\ [](\A h \in History :
             (/\ h.token.body.purpose = "session"
              /\ h.token.body.exp >= NowSeconds
              /\ env.ADMIN_SESSION_SECRET
              /\ \E i \in 1..Len(admin_users) : StoredValue(admin_users[i]) = h.hash)
                 => h \in LiveSessions)

\* after a logout, the session token that an earlier login handed out verifies
C29_Witness ==
    /\ resp.op = "admin_logout"
    /\ resp.max_age = 0
    /\ \E h \in LiveSessions : h.op = "admin_login"

(***************************************************************************)
(* Specification of rotation: admins that must rotate, among them one      *)
(* whose current password is long enough to be chosen again                *)
(***************************************************************************)
LongLegacyRow == [LegacyRow EXCEPT !.password = NewPw]

InitRotation ==
    /\ env = EnvAllSet
    /\ \E row \in {FlaggedRow, StaleStampRow, LegacyRow, LegacyTempRow, LongLegacyRow,
                   MixedCaseRow} :
            admin_users = <<row>>
    /\ pdf_assets = [rows |-> {}, seq |-> 0]
    /\ auth_users = {}
    /\ sessions = ProviderSessions
    /\ clock = 0
    /\ issued = <<>>
    /\ saltCtr = 1
    /\ resp = Response("none", [none |-> TRUE], 0)
    /\ inflight = <<>>

NextRotation ==
    \/ AdminLogin
    \/ AdminUpdatePassword
    \/ AdminLogout

SpecRotation == InitRotation /\ [][NextRotation]_vars

\* the password a stored value stands for
PasswordOf(stored_value) ==
    IF IsBcryptHash(stored_value) THEN SubSeq(stored_value, 6, Len(stored_value))
    ELSE stored_value

\* the row is rotated to the hash of the password
Rotated(row, password) ==
    /\ IsBcryptHash(Get(row.password_hash))
    /\ bcrypt_checkpw(password, row.password_hash)
    /\ \A key \in RESET_FLAGS : row.flags[key] \in {"absent", "false"}
    /\ \A key \in RESET_TIMESTAMP_FIELDS : row.stamps[key] = "absent" \/ ~Falsy(row.stamps[key])
    /\ row.password \in {Absent, NoneStr}
    /\ row.password_temp \in {Absent, NoneStr}
    /\ ~requires_password_change(row, TRUE)

\* C30 (as claimed): after a successful /admin/password the updated row no
\* longer requires rotation (new hash stored, reset flags false, reset
\* timestamps set, legacy password columns null), so the next /admin/login
\* with the new password sets a session cookie and hands out no reset token,
\* and /admin/login with the old password answers 401.
C30_RotationCompletes ==
    (resp.op = "admin_password" /\ resp.status = 200) =>
        LET row == admin_users[resp.row]
            new_password == str_strip(resp.req.new_password)
            old_password == PasswordOf(StoredValue(resp.seen))
            login(password) ==
                admin_login([email |-> resp.email, password |-> password], resp.row,
                            Len(issued) + 1)
        IN  /\ Rotated(row, new_password)
            /\ login(new_password).status = 200
            /\ login(new_password).cookie = "admin_session"
            /\ login(new_password).reset_token = NoToken
            /\ login(old_password).status = 401

====
